---- MODULE Spec2Model ----
(***************************************************************************)
(* devalue-async: the encoder (stringifyAsync), the merge engine           *)
(* (mergeAsyncIterables / createManagedIterator) and the decoder           *)
(* (unflattenAsync), as a state machine.                                   *)
(*                                                                         *)
(* A step of the model is one run-to-suspension segment of JavaScript: a   *)
(* call of next() by a consumer, the settlement of a source's step with    *)
(* the chain of continuations it triggers up to the managed iterator's     *)
(* onResult callback, or the resumption of a task waiting on a deferred.   *)
(***************************************************************************)
EXTENDS Integers, Sequences, FiniteSets, TLC

\* ---------------------------------------------------------------- bounds
MaxIds == 2          \* async values registered in one encoding session
MaxLen == 2          \* items one sequence / pull-stream source yields
MaxRoot == 2         \* async values directly in the root
MaxChunks == 3       \* chunks the transport cuts a text into
MaxChunkLen == 2     \* characters in one chunk
MaxCalls == 5        \* pull() calls on a managed iterator on its own
MaxDestroys == 2     \* destroy() calls on it
MaxFrames == 3       \* body frames an arbitrary frame sequence delivers

Ids == 1 .. MaxIds

\* ------------------------------------------------------ program constants
PROMISE_STATUS_FULFILLED == 0
PROMISE_STATUS_REJECTED == 1
ASYNC_ITERABLE_STATUS_YIELD == 0
ASYNC_ITERABLE_STATUS_ERROR == 1
ASYNC_ITERABLE_STATUS_RETURN == 2

Kinds == {"Promise", "AsyncIterable", "ReadableStream"}

\* causes a source can fail with: "E" has a registered reducer/reviver pair,
\* "U" has none (the base codec refuses it).  "W" is what coerceError makes
\* of a cause, "D" is the base codec's own error, "T" the TypeError of
\* cancel() on a released reader.
Causes == {"E", "U"}

VARIABLES
    kinds,       \* the kinds of async value the session's values hold
    coerce,      \* options.coerceError is configured
    root,        \* the kinds of the async values of the root, by position
    counter,     \* stringifyAsync.counter
    kindOf,      \* id -> the reducer that registered it
    state,       \* mergeAsyncIterables.state
    iterables,   \* mergeAsyncIterables.iterables (ids queued before iteration)
    iterators,   \* mergeAsyncIterables.iterators (live managed iterators)
    buffer,      \* mergeAsyncIterables.buffer
    flushSignal, \* the current flushSignal is resolved
    mpc,         \* position of the merge engine's generator
    mcur,        \* the iterator whose value the merge generator last yielded
    mexit,       \* how the body of the merge generator was left
    itState,     \* createManagedIterator.state, per id
    onResult,    \* createManagedIterator.onResult is still the real callback
    ppc,         \* position of the producer generator of an id
    retq,        \* a return() request is queued behind the producer's step
    dst,         \* destroy() of the managed iterator: "no","wait","ok","err"
    n,           \* items the source of an id has yielded
    cancels,     \* calls of the source's cancellation hook
    term,        \* how the source of an id ended: "none", "return" or its cause
    out,         \* frames stringifyAsync has yielded
    encPc,       \* position of the stringifyAsync generator
    encErr,      \* what stringifyAsync threw
    hookThrows,  \* the return() hooks of the session's sequences may throw
    returns,     \* calls of iterator.return() by destroy(), per id
    errors,      \* the errors array of the merge engine's cleanup
    liveAtExit,  \* the live iterators when the merge generator was left
    second,      \* what a second consumer of the merge engine was answered
    rootAt,      \* the positions of the root: which async value each holds
    upstream,    \* lineAggregator: the text chunks still to come
    fed,         \* lineAggregator: the text received so far
    lineBuffer,  \* lineAggregator.buffer
    lines,       \* the lines lineAggregator has yielded
    lineEnded,   \* lineAggregator has returned
    miState,     \* a managed iterator on its own: its state
    miOnResult,  \* its onResult is still the callback it was created with
    pulls,       \* pull() calls made on it
    destroys,    \* destroy() calls made on it
    issued,      \* iterator.next() calls it has made
    settled,     \* of those, the ones whose promise has settled
    calls,       \* calls of the callback it was created with
    upDone       \* its upstream has returned or thrown

encVars == <<kinds, coerce, root, counter, kindOf, state, iterables, iterators,
             buffer, flushSignal, mpc, mcur, mexit, itState, onResult, ppc,
             retq, dst, n, cancels, term, out, encPc, encErr, hookThrows,
             returns, errors, liveAtExit, second, rootAt, upstream, fed,
             lineBuffer, lines, lineEnded, miState, miOnResult, pulls,
             destroys, issued, settled, calls, upDone>>

lineVars == <<upstream, fed, lineBuffer, lines, lineEnded>>
miVars == <<miState, miOnResult, pulls, destroys, issued, settled, calls,
            upDone>>
partVars == <<lineVars, miVars>>

\* the encoder's state as one record, so that the calls a handler makes can
\* be composed in program order
Cur ==
    [counter |-> counter, kindOf |-> kindOf, state |-> state,
     iterables |-> iterables, iterators |-> iterators, buffer |-> buffer,
     flushSignal |-> flushSignal, mpc |-> mpc, mcur |-> mcur,
     mexit |-> mexit, itState |-> itState, onResult |-> onResult,
     ppc |-> ppc, retq |-> retq, dst |-> dst, n |-> n, cancels |-> cancels,
     term |-> term, out |-> out, encPc |-> encPc, encErr |-> encErr,
     returns |-> returns, errors |-> errors, liveAtExit |-> liveAtExit,
     second |-> second]

Set(s) ==
    /\ counter' = s.counter /\ kindOf' = s.kindOf /\ state' = s.state
    /\ iterables' = s.iterables /\ iterators' = s.iterators
    /\ buffer' = s.buffer /\ flushSignal' = s.flushSignal /\ mpc' = s.mpc
    /\ mcur' = s.mcur /\ mexit' = s.mexit /\ itState' = s.itState
    /\ onResult' = s.onResult /\ ppc' = s.ppc /\ retq' = s.retq
    /\ dst' = s.dst /\ n' = s.n /\ cancels' = s.cancels
    /\ term' = s.term /\ out' = s.out /\ encPc' = s.encPc
    /\ encErr' = s.encErr /\ returns' = s.returns /\ errors' = s.errors
    /\ liveAtExit' = s.liveAtExit /\ second' = s.second

\* ------------------------------------------------ createManagedIterator
\* cleanup(): state = "done", onResult = noop
cleanup(s, k) ==
    [s EXCEPT !.itState[k] = "done", !.onResult[k] = FALSE]

\* mutant: the reducer's generator does not leave its loop after the
\* terminal frame
ProducerNextNoBreak(s, k) ==
    CASE s.ppc[k] \in {"new", "yY", "yT"} -> [s EXCEPT !.ppc[k] = "await"]
      [] OTHER -> s

\* one next() on the producer of id k (registerAsync's wrapper generator and
\* the reducer's generator behind it): a fresh producer or one suspended at
\* a yield-status frame issues the next step on its source; one suspended at
\* its terminal frame leaves the loop and runs its finally block
ProducerNext(s, k) ==
    CASE s.ppc[k] \in {"new", "yY"} -> [s EXCEPT !.ppc[k] = "await"]
      [] s.ppc[k] = "yT" ->
            [s EXCEPT !.ppc[k] = "fin",
                      !.cancels[k] = IF s.kindOf[k] = "Promise" THEN @ ELSE @ + 1]
      [] OTHER -> s

\* pull(): no-op unless idle
pull(s, k) ==
    IF s.itState[k] # "idle" THEN s
    ELSE ProducerNext([s EXCEPT !.itState[k] = "pending"], k)

\* ------------------------------------------------- mergeAsyncIterables
\* mutant: an error result takes the place of what is buffered
MergeOnResultErrorAlone(s, k, res) ==
    IF s.state # "pending" THEN s
    ELSE LET s1 == CASE res.status = "error" ->
                          [s EXCEPT !.buffer = <<[it |-> k, res |-> res]>>,
                                    !.iterators = @ \ {k}]
                     [] res.status = "return" ->
                          [s EXCEPT !.iterators = @ \ {k}]
                     [] OTHER ->
                          [s EXCEPT !.buffer = Append(@, [it |-> k, res |-> res])]
         IN [s1 EXCEPT !.flushSignal = TRUE]

\* the callback initIterable hands to createManagedIterator
MergeOnResult(s, k, res) ==
    IF s.state # "pending" THEN s
    ELSE LET s1 == CASE res.status = "error" ->
                          [s EXCEPT !.buffer = Append(@, [it |-> k, res |-> res]),
                                    !.iterators = @ \ {k}]
                     [] res.status = "return" ->
                          [s EXCEPT !.iterators = @ \ {k}]
                     [] OTHER ->
                          [s EXCEPT !.buffer = Append(@, [it |-> k, res |-> res])]
         IN [s1 EXCEPT !.flushSignal = TRUE]

\* mutant: the newest result is put in front of the buffer
CallOnResultFront(s, k, res) ==
    IF s.onResult[k]
    THEN LET t == MergeOnResult(s, k, res)
         IN IF Len(t.buffer) > Len(s.buffer)
            THEN [t EXCEPT !.buffer = <<t.buffer[Len(t.buffer)]>> \o s.buffer]
            ELSE t
    ELSE s

\* the managed iterator calls whatever its onResult currently is
CallOnResult(s, k, res) ==
    IF s.onResult[k] THEN MergeOnResult(s, k, res) ELSE s

initIterable(s, k) ==
    IF s.state # "pending" THEN s
    ELSE pull([s EXCEPT !.iterators = @ \cup {k},
                        !.itState[k] = "idle",
                        !.onResult[k] = TRUE], k)

\* mutant: add() starts the iterable at once, whatever the engine's state
addEager(s, k) ==
    pull([s EXCEPT !.iterators = @ \cup {k},
                   !.itState[k] = "idle",
                   !.onResult[k] = TRUE], k)

add(s, k) ==
    CASE s.state = "done" -> s
      [] s.state = "idle" -> [s EXCEPT !.iterables = Append(@, k)]
      [] OTHER -> initIterable(s, k)

\* --------------------------------------------------------- stringifyAsync
\* mutant: the counter is read but not advanced
registerAsyncSameId(s, kd) ==
    LET idx == s.counter + 1
    IN add([s EXCEPT !.kindOf[idx] = kd], idx)

registerAsync(s, kd) ==
    LET idx == s.counter + 1
    IN add([s EXCEPT !.counter = idx, !.kindOf[idx] = kd], idx)

\* mutant: the async values of a payload get no producer
RegisterNone(s, kids) == s

RECURSIVE RegisterAll(_, _)
RegisterAll(s, kids) ==
    IF kids = <<>> THEN s
    ELSE RegisterAll(registerAsync(s, Head(kids)), Tail(kids))

\* the placeholders [name, id] the reducers leave while the base codec walks
\* a value that holds the async values kids
NewIds(s, kids) ==
    [i \in 1 .. Len(kids) |-> [name |-> kids[i], id |-> s.counter + i]]

\* stringify(value, reducers): the text of a value v holding async values:
\* v in the base codec's form, each async value replaced by its id
Payload(v, refs) == [enc |-> <<"devalue", v>>, refs |-> refs]

\* the first line: the root, its positions pointing at the placeholders
Header(refs, at) == [tag |-> "header", id |-> 0, status |-> 0,
                     payload |-> Payload("root", refs), at |-> at]

\* mutant: a reducer is called for every position of the value
WalkEach(kids, at) ==
    [kids |-> [i \in 1 .. Len(at) |-> kids[at[i]]],
     at |-> [i \in 1 .. Len(at) |-> i]]

\* the base codec's walk of a value whose positions at hold the async
\* values kids: an object already seen is given the index it has, so the
\* reducers are called once for each distinct one
Walk(kids, at) == [kids |-> kids, at |-> at]
Body(k, status, payload) == [tag |-> "body", id |-> k, status |-> status,
                             payload |-> payload]

Encodable(c) == c \in {"E", "W"}
coerceError(c) == "W"

\* mutant: every cause is replaced by its coercion
safeCauseAlwaysCoerce(c) == [ok |-> TRUE, v |-> coerceError(c)]

\* safeCause(cause): the text for a cause, or "throws" when neither the cause
\* nor (with coerceError) its coercion can be stringified
safeCause(c) ==
    IF Encodable(c) THEN [ok |-> TRUE, v |-> c]
    ELSE IF ~coerce THEN [ok |-> FALSE, v |-> "D"]
    ELSE IF Encodable(coerceError(c)) THEN [ok |-> TRUE, v |-> coerceError(c)]
    ELSE [ok |-> FALSE, v |-> "D"]

\* ------------------------------------- the managed iterator's continuations
\* mutant: the value is buffered but the flush signal is left as it was
MiThenYieldQuiet(s, k, frame) ==
    [CallOnResult([s EXCEPT !.itState[k] = "idle"], k,
                  [status |-> "yield", value |-> frame])
        EXCEPT !.flushSignal = s.flushSignal]

\* .then of a step that yielded: state = "idle", onResult({yield})
MiThenYield(s, k, frame) ==
    CallOnResult([s EXCEPT !.itState[k] = "idle"], k,
                 [status |-> "yield", value |-> frame])

\* mutant: a step that finished is not reported
MiThenDoneSilent(s, k) ==
    cleanup([s EXCEPT !.itState[k] = "done"], k)

\* .then of a step that finished: state = "done", onResult({return}), cleanup
MiThenDone(s, k) ==
    cleanup(CallOnResult([s EXCEPT !.itState[k] = "done"], k,
                         [status |-> "return", value |-> "none"]), k)

\* .catch: onResult({error}), cleanup
MiCatch(s, k, cause) ==
    cleanup(CallOnResult(s, k, [status |-> "error", value |-> cause]), k)

\* mutant: destroy() settles without calling return() on the iterator
destroyQuiet(s, k) == [cleanup(s, k) EXCEPT !.dst[k] = "ok"]

\* destroy(): cleanup, then return() on the producer.  A producer that is
\* awaiting (its source, or its own finally block) queues the request behind
\* the step in flight; one suspended at a yield runs its finally block now.
destroy(s, k) ==
    LET s1 == [cleanup(s, k) EXCEPT !.returns[k] = @ + 1]
    IN CASE s1.ppc[k] \in {"await", "fin", "finErr"} ->
              [s1 EXCEPT !.retq[k] = TRUE, !.dst[k] = "wait"]
         [] s1.ppc[k] \in {"yY", "yT"} ->
              [s1 EXCEPT !.ppc[k] = "finR", !.dst[k] = "wait",
                         !.cancels[k] = IF s.kindOf[k] = "Promise" THEN @ ELSE @ + 1]
         [] s1.ppc[k] = "new" ->
              [s1 EXCEPT !.ppc[k] = "done", !.dst[k] = "ok"]
         [] OTHER -> [s1 EXCEPT !.dst[k] = "ok"]

RECURSIVE DestroyAll(_, _)
DestroyAll(s, ks) ==
    IF ks = {} THEN s
    ELSE LET k == CHOOSE x \in ks : TRUE
         IN DestroyAll(destroy(s, k), ks \ {k})

\* mutant: the cleanup destroys no iterator
BeginDisposeKeep(s, exit) ==
    [s EXCEPT !.state = "done", !.mexit = exit, !.liveAtExit = s.iterators,
              !.mpc = "disposing", !.encPc = "wait"]

\* the cleanup the merge generator registers with makeAsyncResource, up to
\* its await: state = "done" and destroy() on every live iterator
BeginDispose(s, exit) ==
    [DestroyAll([s EXCEPT !.state = "done", !.mexit = exit,
                          !.liveAtExit = s.iterators], s.iterators)
        EXCEPT !.mpc = "disposing", !.encPc = "wait"]

\* mutant: the cleanup is registered before the state is looked at
asyncIteratorAgainDisposing(s) ==
    BeginDispose([s EXCEPT !.second = "Cannot iterate twice"],
                 "Cannot iterate twice")

\* [Symbol.asyncIterator]() once more, up to its first statement: a consumer
\* that comes when state is not "idle" gets the error, before any cleanup
\* has been registered
asyncIteratorAgain(s) ==
    IF s.state # "idle" THEN [s EXCEPT !.second = "Cannot iterate twice"]
    ELSE s

\* mutant: the loop waits only for the sources it started itself
LoopHeadStartedOnly(s) ==
    IF s.iterators \cap (1 .. Len(root)) = {} THEN BeginDispose(s, "normal")
    ELSE [s EXCEPT !.mpc = "await", !.encPc = "wait"]

\* while (iterators.size > 0) { await flushSignal.promise; ...
LoopHead(s) ==
    IF s.iterators = {} THEN BeginDispose(s, "normal")
    ELSE [s EXCEPT !.mpc = "await", !.encPc = "wait"]

\* mutant: the drain loop reads the head of the buffer without removing it
DrainNoShift(s) ==
    IF s.buffer # <<>>
    THEN LET h == Head(s.buffer)
         IN IF h.res.status = "yield"
            THEN [s EXCEPT !.mpc = "yield", !.mcur = h.it,
                           !.out = Append(@, h.res.value), !.encPc = "body"]
            ELSE BeginDispose(s, h.res.value)
    ELSE LoopHead([s EXCEPT !.flushSignal = FALSE])

\* while (buffer.length > 0) { shift; yield or throw }; flushSignal = new
Drain(s) ==
    IF s.buffer # <<>>
    THEN LET h == Head(s.buffer)
             s1 == [s EXCEPT !.buffer = Tail(@)]
         IN IF h.res.status = "yield"
            THEN [s1 EXCEPT !.mpc = "yield", !.mcur = h.it,
                            !.out = Append(@, h.res.value), !.encPc = "body"]
            ELSE BeginDispose(s1, h.res.value)
    ELSE LoopHead([s EXCEPT !.flushSignal = FALSE])

RECURSIVE InitAll(_, _)
InitAll(s, ks) ==
    IF ks = <<>> THEN s
    ELSE InitAll(initIterable(s, Head(ks)), Tail(ks))

\* ------------------------------------------------------------- the sources
\* the async values a delivered value may hold
Kids(s) ==
    IF s.counter < MaxIds THEN {<<>>} \cup {<<kd>> : kd \in kinds} ELSE {<<>>}

\* mutant: the producer goes on after its terminal frame as after a yield
EmitNeverTerminal(s, k, status, v, kids, terminal) ==
    LET s1 == RegisterAll(s, kids)
        frame == Body(k, status, Payload(v, NewIds(s, kids)))
        s2 == [s1 EXCEPT !.ppc[k] = "yY"]
        s3 == MiThenYield(s2, k, frame)
    IN IF s3.retq[k]
       THEN [s3 EXCEPT !.retq[k] = FALSE, !.ppc[k] = "finR",
                       !.cancels[k] = IF s.kindOf[k] = "Promise" THEN @ ELSE @ + 1]
       ELSE s3

\* the producer of id k hands the frame (status, v) to its managed iterator
Emit(s, k, status, v, kids, terminal) ==
    LET s1 == RegisterAll(s, kids)
        frame == Body(k, status, Payload(v, NewIds(s, kids)))
        s2 == [s1 EXCEPT !.ppc[k] = IF terminal THEN "yT" ELSE "yY"]
        s3 == MiThenYield(s2, k, frame)
    IN IF s3.retq[k]
       THEN [s3 EXCEPT !.retq[k] = FALSE, !.ppc[k] = "finR",
                       !.cancels[k] = IF s.kindOf[k] = "Promise" THEN @ ELSE @ + 1]
       ELSE s3

\* mutant: an encoding error in the catch block skips the finally block
FailSkipsFinally(s, k, status, c) ==
    LET sc == safeCause(c)
    IN IF sc.ok THEN Emit(s, k, status, sc.v, <<>>, TRUE)
       ELSE IF s.kindOf[k] = "Promise"
            THEN LET s1 == MiCatch([s EXCEPT !.ppc[k] = "threw"], k, sc.v)
                 IN IF s1.retq[k]
                    THEN [s1 EXCEPT !.retq[k] = FALSE, !.dst[k] = "ok"]
                    ELSE s1
            ELSE [s EXCEPT !.ppc[k] = "finErr"]

\* the reducer's catch block: yield [ERROR, safeCause(cause)]
Fail(s, k, status, c) ==
    LET sc == safeCause(c)
    IN IF sc.ok THEN Emit(s, k, status, sc.v, <<>>, TRUE)
       ELSE IF s.kindOf[k] = "Promise"
            THEN LET s1 == MiCatch([s EXCEPT !.ppc[k] = "threw"], k, sc.v)
                 IN IF s1.retq[k]
                    THEN [s1 EXCEPT !.retq[k] = FALSE, !.dst[k] = "ok"]
                    ELSE s1
            ELSE [s EXCEPT !.ppc[k] = "finErr", !.cancels[k] = @ + 1]

\* ----------------------------------------------------------------- actions
\* the first next() on stringifyAsync: walk the root, yield the header
EncStart ==
    /\ encPc = "init"
    /\ LET w == Walk(root, rootAt)
       IN Set([RegisterAll(Cur, w.kids)
                 EXCEPT !.out = <<Header(NewIds(Cur, w.kids), w.at)>>,
                        !.encPc = "hdr"])
    /\ UNCHANGED <<kinds, coerce, root, hookThrows, rootAt, partVars>>

\* a later next() on stringifyAsync: start the merge generator, or resume it
\* after its yield (iterator.pull(), then on with the drain loop)
EncResume(s) ==
    IF s.encPc = "hdr"
    THEN LoopHead(InitAll([s EXCEPT !.state = "pending", !.iterables = <<>>],
                          s.iterables))
    ELSE Drain(pull(s, s.mcur))

EncNext ==
    /\ encPc \in {"hdr", "body"}
    /\ Set(EncResume(Cur))
    /\ UNCHANGED <<kinds, coerce, root, hookThrows, rootAt, partVars>>

\* the merge generator wakes from await flushSignal.promise
MergeWake ==
    /\ mpc = "await" /\ flushSignal
    /\ Set(Drain(Cur))
    /\ UNCHANGED <<kinds, coerce, root, hookThrows, rootAt, partVars>>

\* the step in flight on the source of id k settles
SourceYield(k) ==
    /\ ppc[k] = "await" /\ kindOf[k] # "Promise" /\ n[k] < MaxLen
    /\ \E kids \in Kids(Cur) :
          Set(Emit([Cur EXCEPT !.n[k] = @ + 1], k,
                   ASYNC_ITERABLE_STATUS_YIELD, n[k] + 1, kids, FALSE))
    /\ UNCHANGED <<kinds, coerce, root, hookThrows, rootAt, partVars>>

SourceReturn(k) ==
    /\ ppc[k] = "await"
    /\ \E kids \in Kids(Cur) :
          Set(Emit([Cur EXCEPT !.term[k] = "return"], k,
                   IF kindOf[k] = "Promise" THEN PROMISE_STATUS_FULFILLED
                   ELSE ASYNC_ITERABLE_STATUS_RETURN,
                   IF kindOf[k] = "ReadableStream" THEN "undefined" ELSE "r",
                   IF kindOf[k] = "ReadableStream" THEN <<>> ELSE kids, TRUE))
    /\ UNCHANGED <<kinds, coerce, root, hookThrows, rootAt, partVars>>

SourceThrow(k) ==
    /\ ppc[k] = "await"
    /\ \E c \in Causes :
          Set(Fail([Cur EXCEPT !.term[k] = c], k,
                   IF kindOf[k] = "Promise" THEN PROMISE_STATUS_REJECTED
                   ELSE ASYNC_ITERABLE_STATUS_ERROR, c))
    /\ UNCHANGED <<kinds, coerce, root, hookThrows, rootAt, partVars>>

\* the step in flight on the source of id k settles with a value that the
\* base codec refuses (a function, an object that is no plain object) after
\* its walk has met the async values kids: the reducers have registered
\* them when stringify throws, and the error lands in the reducer's catch
\* block as the cause
SourceRefused(k) ==
    /\ ppc[k] = "await"
    /\ \E kids \in Kids(Cur), last \in BOOLEAN :
          /\ last \/ (kindOf[k] # "Promise" /\ n[k] < MaxLen)
          /\ LET s0 == IF last THEN [Cur EXCEPT !.term[k] = "return"]
                       ELSE [Cur EXCEPT !.n[k] = @ + 1]
             IN Set(Fail(RegisterAll(s0, kids), k,
                         IF kindOf[k] = "Promise" THEN PROMISE_STATUS_REJECTED
                         ELSE ASYNC_ITERABLE_STATUS_ERROR, "U"))
    /\ UNCHANGED <<kinds, coerce, root, hookThrows, rootAt, partVars>>

\* what the finally block of the producer of id k can end with: the
\* TypeError of cancel() on a released reader, an error thrown by the
\* sequence's return() hook, else what the block was entered with
FinallyOutcomes(k) ==
    CASE kindOf[k] = "ReadableStream" -> {"T"}
      [] kindOf[k] = "AsyncIterable" ->
            {IF ppc[k] = "finErr" THEN "D" ELSE "none"}
               \cup (IF hookThrows THEN {"H"} ELSE {})
      [] OTHER -> {"none"}

\* the finally block of the producer of id k completes
ProducerFinish(k) ==
    /\ ppc[k] \in {"fin", "finErr", "finR"}
    /\ \E err \in FinallyOutcomes(k) :
          LET s0 == [Cur EXCEPT !.ppc[k] = IF err = "none" THEN "done" ELSE "threw"]
          IN IF ppc[k] = "finR"
             THEN Set(IF err = "none"
                      THEN [s0 EXCEPT !.dst[k] = "ok"]
                      ELSE [s0 EXCEPT !.dst[k] = "err",
                                      !.errors = Append(@, [it |-> k, cause |-> err])])
             ELSE LET s1 == IF err = "none" THEN MiThenDone(s0, k)
                            ELSE MiCatch(s0, k, err)
                  IN Set(IF s1.retq[k]
                         THEN [s1 EXCEPT !.retq[k] = FALSE, !.dst[k] = "ok"]
                         ELSE s1)
    /\ UNCHANGED <<kinds, coerce, root, hookThrows, rootAt, partVars>>

\* every destroy() has settled: the rest of the merge generator's cleanup,
\* and the completion of stringifyAsync's for await
DisposeFinish ==
    /\ mpc = "disposing"
    /\ \A k \in iterators : dst[k] \in {"ok", "err"}
    /\ LET errs == {k \in iterators : dst[k] = "err"}
       IN Set([Cur EXCEPT !.buffer = <<>>, !.iterators = {},
                          !.flushSignal = TRUE, !.mpc = "done",
                          !.encPc = IF errs = {} /\ mexit = "normal" THEN "done"
                                    ELSE IF errs = {} /\ mexit = "break"
                                    THEN "returned" ELSE "threw",
                          !.encErr = IF errs # {}
                                     THEN IF mexit \in {"normal", "break"}
                                          THEN "AggregateError"
                                          ELSE "SuppressedError"
                                     ELSE IF mexit \in {"normal", "break"}
                                          THEN "none" ELSE mexit])
    /\ UNCHANGED <<kinds, coerce, root, hookThrows, rootAt, partVars>>

RootLens == {len \in 0 .. MaxRoot : len <= MaxIds}
RootShapes(ks) == UNION {[1 .. len -> ks] : len \in RootLens}

\* the ways the positions of a root can hold its async values r: every
\* value at one position at least, numbered in the order the walk meets them
RootAts(r) ==
    {at \in UNION {[1 .. m -> 1 .. Len(r)] : m \in Len(r) .. MaxIds} :
        /\ \A v \in 1 .. Len(r) : \E i \in DOMAIN at : at[i] = v
        /\ \A i \in DOMAIN at : \A v \in 1 .. (at[i] - 1) :
              \E j \in 1 .. (i - 1) : at[j] = v}

\* each async value at one position
OneEach(r) == [i \in 1 .. Len(r) |-> i]

\* ----------------------------------------------------------- lineAggregator
\* text is a sequence of characters; NL is the newline
NL == "\n"
Alphabet == {"a", NL}

Texts(len) == UNION {[1 .. m -> Alphabet] : m \in 0 .. len}

\* the ways the transport may cut a text into chunks
Cuttings == UNION {[1 .. m -> Texts(MaxChunkLen)] : m \in 0 .. MaxChunks}

\* buffer.split("\n")
RECURSIVE Split(_)
Split(t) ==
    LET nls == {i \in 1 .. Len(t) : t[i] = NL}
    IN IF nls = {} THEN <<t>>
       ELSE LET i == CHOOSE x \in nls : \A y \in nls : x <= y
            IN <<SubSeq(t, 1, i - 1)>> \o Split(SubSeq(t, i + 1, Len(t)))

\* mutant: each chunk is split on its own, nothing is carried over
LineChunkNoCarry ==
    /\ upstream # <<>> /\ ~lineEnded
    /\ LET parts == Split(Head(upstream))
       IN /\ lineBuffer' = parts[Len(parts)]
          /\ lines' = lines \o SubSeq(parts, 1, Len(parts) - 1)
    /\ fed' = fed \o Head(upstream)
    /\ upstream' = Tail(upstream)
    /\ UNCHANGED lineEnded

\* one round of the for await: buffer += line; parts = buffer.split("\n");
\* buffer = parts.pop(); every remaining part is yielded
LineChunk ==
    /\ upstream # <<>> /\ ~lineEnded
    /\ LET parts == Split(lineBuffer \o Head(upstream))
       IN /\ lineBuffer' = parts[Len(parts)]
          /\ lines' = lines \o SubSeq(parts, 1, Len(parts) - 1)
    /\ fed' = fed \o Head(upstream)
    /\ upstream' = Tail(upstream)
    /\ UNCHANGED lineEnded

\* the upstream ends: the generator returns, whatever is in the buffer
LineEnd ==
    /\ upstream = <<>> /\ ~lineEnded
    /\ lineEnded' = TRUE
    /\ UNCHANGED <<upstream, fed, lineBuffer, lines>>

\* ------------------------------------- createManagedIterator on its own
\* one managed iterator, its pull() and destroy() called in any order by its
\* owner, over an upstream that settles each step when it likes

\* onResult(...): the callback of the merge engine returns normally; after
\* cleanup() the call goes to the noop
MiCall == calls' = IF miOnResult THEN calls + 1 ELSE calls

\* mutant: pull() does not look at the state
MiPullAlways ==
    /\ pulls < MaxCalls
    /\ pulls' = pulls + 1
    /\ miState' = "pending" /\ issued' = issued + 1
    /\ UNCHANGED <<miOnResult, destroys, settled, calls, upDone>>

\* pull(): if (state !== "idle") return; state = "pending"; iterator.next()
MiPull ==
    /\ pulls < MaxCalls
    /\ pulls' = pulls + 1
    /\ IF miState # "idle"
       THEN UNCHANGED <<miState, issued>>
       ELSE miState' = "pending" /\ issued' = issued + 1
    /\ UNCHANGED <<miOnResult, destroys, settled, calls, upDone>>

\* destroy(): cleanup(), then iterator.return()
MiDestroy ==
    /\ destroys < MaxDestroys
    /\ destroys' = destroys + 1
    /\ miState' = "done" /\ miOnResult' = FALSE
    /\ UNCHANGED <<pulls, issued, settled, calls, upDone>>

\* .then with result.done false: state = "idle"; onResult({yield})
MiStepYield ==
    /\ settled < issued /\ ~upDone
    /\ settled' = settled + 1
    /\ miState' = "idle"
    /\ MiCall
    /\ UNCHANGED <<miOnResult, pulls, destroys, issued, upDone>>

\* .then with result.done true: state = "done"; onResult({return}); cleanup()
MiStepDone ==
    /\ settled < issued
    /\ settled' = settled + 1
    /\ MiCall
    /\ miState' = "done" /\ miOnResult' = FALSE
    /\ upDone' = TRUE
    /\ UNCHANGED <<pulls, destroys, issued>>

\* .catch: onResult({error}); cleanup()
MiStepThrow ==
    /\ settled < issued /\ ~upDone
    /\ settled' = settled + 1
    /\ MiCall
    /\ miState' = "done" /\ miOnResult' = FALSE
    /\ upDone' = TRUE
    /\ UNCHANGED <<pulls, destroys, issued>>

EncInit ==
    /\ coerce \in BOOLEAN
    /\ root \in RootShapes(kinds)
    /\ counter = 0
    /\ kindOf = [k \in Ids |-> "none"]
    /\ state = "idle"
    /\ iterables = <<>>
    /\ iterators = {}
    /\ buffer = <<>>
    /\ flushSignal = FALSE
    /\ mpc = "unstarted"
    /\ mcur = 0
    /\ mexit = "none"
    /\ itState = [k \in Ids |-> "none"]
    /\ onResult = [k \in Ids |-> FALSE]
    /\ ppc = [k \in Ids |-> "new"]
    /\ retq = [k \in Ids |-> FALSE]
    /\ dst = [k \in Ids |-> "no"]
    /\ n = [k \in Ids |-> 0]
    /\ cancels = [k \in Ids |-> 0]
    /\ term = [k \in Ids |-> "none"]
    /\ out = <<>>
    /\ encPc = "init"
    /\ encErr = "none"
    /\ hookThrows \in BOOLEAN
    /\ returns = [k \in Ids |-> 0]
    /\ errors = <<>>
    /\ liveAtExit = {}
    /\ second = "none"
    /\ rootAt \in RootAts(root)
    /\ fed = <<>>
    /\ lineBuffer = <<>>
    /\ lines = <<>>
    /\ lineEnded = FALSE
    /\ miState = "idle"
    /\ miOnResult = TRUE
    /\ pulls = 0 /\ destroys = 0
    /\ issued = 0 /\ settled = 0 /\ calls = 0
    /\ upDone = FALSE

EncNextStep ==
    \/ EncStart
    \/ EncNext
    \/ MergeWake
    \/ \E k \in Ids : SourceYield(k)
    \/ \E k \in Ids : SourceReturn(k)
    \/ \E k \in Ids : SourceThrow(k)
    \/ \E k \in Ids : ProducerFinish(k)
    \/ DisposeFinish


\* ================================================================ decoder
VARIABLES
    decPc,          \* unflattenAsync: "init", "head", "run", "ended", "failed"
    controllerMap,  \* the ids that have a controller
    cbuf,           \* createController.buffer, per id
    cres,           \* the controller's current deferred is resolved
    ckind,          \* the reviver that revived an id
    cpc,            \* position of the consumer of an id
    obs,            \* the items the consumer of an id has been given
    res,            \* how the consumer's sequence / promise ended
    handed,         \* the ids whose revived value the application holds
    openAtEnd,      \* the ids whose controller was in the map, their consumer
                    \* not yet finished, when the frame sequence ended or threw
    caught,         \* the value the dispatcher's catch received
    rootHeld,       \* the revived value at each position of the returned root
    ccancel         \* the consumer's cancellation of a revived sequence:
                    \* "no", "queued" behind the read in flight, "done"

decVars == <<decPc, controllerMap, cbuf, cres, ckind, cpc, obs, res, handed,
             openAtEnd, caught, rootHeld, ccancel>>
vars == <<encVars, decVars>>

DCur ==
    [controllerMap |-> controllerMap, cbuf |-> cbuf, cres |-> cres,
     ckind |-> ckind, cpc |-> cpc, obs |-> obs, res |-> res,
     handed |-> handed, openAtEnd |-> openAtEnd, caught |-> caught,
     rootHeld |-> rootHeld, ccancel |-> ccancel]

DSet(d) ==
    /\ controllerMap' = d.controllerMap /\ cbuf' = d.cbuf /\ cres' = d.cres
    /\ ckind' = d.ckind /\ cpc' = d.cpc /\ obs' = d.obs /\ res' = d.res
    /\ handed' = d.handed /\ openAtEnd' = d.openAtEnd
    /\ caught' = d.caught /\ rootHeld' = d.rootHeld
    /\ ccancel' = d.ccancel

\* mutant: the codec's tag is taken for the value
UnflattenTag(payload) == [v |-> payload.enc[1], refs |-> payload.refs]

\* unflatten(payload, revivers), the base codec's part: the value back from
\* its text; the placeholders are revived by Revive below
Unflatten(payload) == [v |-> payload.enc[2], refs |-> payload.refs]

\* a value the application is given: what it is, and the async values in it
Plain(v) == [v |-> v, refs |-> <<>>]

Sentinel(err) == [tag |-> "sentinel", err |-> err]
InterruptedError == Sentinel("Stream interrupted: malformed stream")
Chunk(status, value) == [tag |-> "chunk", status |-> status, value |-> value]

\* mutant: a new controller whether or not the map has one
getControllerFresh(d, id) ==
    [d EXCEPT !.controllerMap = @ \cup {id},
              !.cbuf[id] = <<>>, !.cres[id] = FALSE]

\* getController(id): the controller of the map, or a new one
getController(d, id) ==
    IF id \in d.controllerMap THEN d
    ELSE [d EXCEPT !.controllerMap = @ \cup {id},
                   !.cbuf[id] = <<>>, !.cres[id] = FALSE]

\* mutant: the entry is put in front of the buffer
pushFront(d, id, c) ==
    [d EXCEPT !.cbuf[id] = <<c>> \o @, !.cres[id] = TRUE]

\* push(v): buffer.push(v); deferred.resolve()
push(d, id, c) ==
    [d EXCEPT !.cbuf[id] = Append(@, c), !.cres[id] = TRUE]

\* the built-in revivers.  Promise: getController and start consuming at
\* once.  ReadableStream: getController at once, the generator starts with
\* the first pull.  AsyncIterable: an async generator function, nothing of
\* its body runs before the first next().
ReviveOne(d, ref) ==
    LET d1 == [d EXCEPT !.ckind[ref.id] = ref.name]
    IN CASE ref.name = "Promise" ->
              [getController(d1, ref.id) EXCEPT !.cpc[ref.id] = "reading"]
         [] ref.name = "ReadableStream" ->
              [getController(d1, ref.id) EXCEPT !.cpc[ref.id] = "revived"]
         [] OTHER -> [d1 EXCEPT !.cpc[ref.id] = "revived"]

RECURSIVE Revive(_, _)
Revive(d, refs) ==
    IF refs = <<>> THEN d
    ELSE Revive(ReviveOne(d, Head(refs)), Tail(refs))

\* mutant: no async value of the payload is handed on
RefIdsNone(refs) == {}

RefIds(refs) == {refs[i].id : i \in 1 .. Len(refs)}

\* what the positions of a rebuilt value hold: the base codec revives an
\* entry once and gives every position that points at it that one value
Held(refs, at) == [i \in 1 .. Len(at) |-> refs[at[i]]]

\* the consumer's view ends: res is recorded; the generator's finally block
\* (controllerMap.delete) runs when the generator itself was left
Finish(d, id, pc, outcome, left) ==
    [d EXCEPT !.cpc[id] = pc, !.res[id] = outcome,
              !.controllerMap = IF left THEN @ \ {id} ELSE @]

Outcome(how, value) == [how |-> how, value |-> value]

\* the generator's drain loop seen from the reviver that consumes it: one
\* buffered entry after the other until one is handed to the application or
\* the buffer is empty (then the generator awaits its deferred again)
RECURSIVE Take(_, _)
Take(d, id) ==
    IF d.cbuf[id] = <<>> THEN [d EXCEPT !.cpc[id] = "reading"]
    ELSE LET c == Head(d.cbuf[id])
             d1 == [d EXCEPT !.cbuf[id] = Tail(@)]
         IN IF c.tag = "sentinel"
            THEN Finish(d1, id, "threw", Outcome("throw", Plain(c.err)), TRUE)
            ELSE CASE d.ckind[id] = "Promise" ->
                   IF c.status = PROMISE_STATUS_FULFILLED
                   THEN Finish([d1 EXCEPT !.handed = @ \cup RefIds(c.value.refs)],
                               id, "done", Outcome("fulfilled", c.value), TRUE)
                   ELSE IF c.status = PROMISE_STATUS_REJECTED
                   THEN Finish(d1, id, "threw", Outcome("rejected", c.value), TRUE)
                   ELSE Finish(d1, id, "threw",
                               Outcome("throw", Plain("Unknown promise status")), TRUE)
                 [] d.ckind[id] = "AsyncIterable" ->
                   IF c.status = ASYNC_ITERABLE_STATUS_RETURN
                   THEN Finish([d1 EXCEPT !.handed = @ \cup RefIds(c.value.refs)],
                               id, "done", Outcome("return", c.value), TRUE)
                   ELSE IF c.status = ASYNC_ITERABLE_STATUS_YIELD
                   THEN [d1 EXCEPT !.cpc[id] = "idle",
                                   !.obs[id] = Append(@, c.value),
                                   !.handed = @ \cup RefIds(c.value.refs)]
                   ELSE IF c.status = ASYNC_ITERABLE_STATUS_ERROR
                   THEN Finish(d1, id, "threw", Outcome("throw", c.value), TRUE)
                   ELSE Take(d1, id)
                 [] OTHER ->
                   IF c.status = ASYNC_ITERABLE_STATUS_RETURN
                   THEN Finish(d1, id, "done", Outcome("close", Plain("none")), FALSE)
                   ELSE IF c.status = ASYNC_ITERABLE_STATUS_YIELD
                   THEN [d1 EXCEPT !.cpc[id] = "idle",
                                   !.obs[id] = Append(@, c.value),
                                   !.handed = @ \cup RefIds(c.value.refs)]
                   ELSE IF c.status = ASYNC_ITERABLE_STATUS_ERROR
                   THEN Finish(d1, id, "threw", Outcome("throw", c.value), FALSE)
                   ELSE Finish(d1, id, "threw",
                               Outcome("throw", Plain("Unknown async iterable status")), FALSE)

\* the read in flight settles; a return() queued behind it then runs.  The
\* generator of the controller is suspended at its yield by then (or has
\* ended), so its finally block deletes the controller.  The consumer of a
\* revived sequence is still given what its read produced; a cancelled
\* stream takes nothing more.
TakeThenReturn(d, id) ==
    LET t == Take(d, id)
    IN IF d.ccancel[id] # "queued" \/ t.cpc[id] = "reading" THEN t
       ELSE LET u == [t EXCEPT !.ccancel[id] = "done",
                               !.controllerMap = @ \ {id},
                               !.cpc[id] = IF @ = "idle" THEN "done" ELSE @]
            IN IF d.ckind[id] = "ReadableStream"
               THEN [u EXCEPT !.obs = d.obs, !.handed = d.handed,
                              !.res = d.res, !.cpc[id] = "done"]
               ELSE [u EXCEPT !.res[id] =
                        IF @.how = "none"
                        THEN Outcome("cancelled", Plain("none")) ELSE @]

\* mutant: cancelling one revived sequence drops every controller
consReturnAll(d, id) ==
    [d EXCEPT !.cpc[id] = "done", !.ccancel[id] = "done",
              !.res[id] = Outcome("cancelled", Plain("none")),
              !.controllerMap = {}]

\* return() on a revived sequence, cancel() on a revived stream.  Not yet
\* started: the reviver's generator ends without having run, its controller
\* (if the dispatcher made one) stays.  Suspended at a yield: the
\* controller's generator is returned and its finally block deletes the
\* controller.  A read in flight: the request waits behind it.
consReturn(d, id) ==
    CASE d.cpc[id] = "revived" ->
            [d EXCEPT !.cpc[id] = "done", !.ccancel[id] = "done",
                      !.res[id] = Outcome("cancelled", Plain("none"))]
      [] d.cpc[id] = "idle" ->
            [Finish(d, id, "done", Outcome("cancelled", Plain("none")), TRUE)
                EXCEPT !.ccancel[id] = "done"]
      [] OTHER ->
            [d EXCEPT !.ccancel[id] = "queued",
                      !.res[id] = IF d.ckind[id] = "ReadableStream"
                                  THEN Outcome("cancelled", Plain("none"))
                                  ELSE @]

\* what the dispatcher's catch hands to the controllers: the thrown value
\* when it is an Error, else a new Error("Stream interrupted", {cause})
IsError(c) == c # "thrown string"

\* mutant: the thrown value is handed on as it is
WrapNever(c) == c

WrapCause(c) == IF IsError(c) THEN c ELSE "Stream interrupted [cause: thrown string]"

\* mutant: the final error is pushed to no controller
PushNone(d, ids, c) == d

RECURSIVE PushAll(_, _, _)
PushAll(d, ids, c) ==
    IF ids = {} THEN d
    ELSE LET k == CHOOSE x \in ids : TRUE
         IN PushAll(push(d, k, c), ids \ {k}, c)

\* mutant: the final error entry is put in front of what the controllers hold
FeedAllFront(d, c) ==
    [d EXCEPT !.cbuf = [k \in Ids |-> IF k \in d.controllerMap
                                      THEN <<c>> \o d.cbuf[k] ELSE d.cbuf[k]],
              !.cres = [k \in Ids |-> k \in d.controllerMap \/ d.cres[k]],
              !.openAtEnd = {k \in d.controllerMap : d.res[k].how = "none"}]

\* the controllers a final error entry is pushed to, the ones whose consumer
\* has not finished recorded
FeedAll(d, c) ==
    [PushAll(d, d.controllerMap, c)
        EXCEPT !.openAtEnd = {k \in d.controllerMap : d.res[k].how = "none"}]

\* mutant: the catch does nothing
FailNone(d, cause) == d

\* the dispatcher's catch: every controller of the map is pushed the error
FailAll(d, cause) ==
    [FeedAll(d, Sentinel(WrapCause(cause))) EXCEPT !.caught = cause]

\* the dispatcher's handling of one body frame
Dispatch(d, frame) ==
    LET value == Unflatten(frame.payload)
        d1 == Revive(getController(d, frame.id), value.refs)
    IN push(d1, frame.id, Chunk(frame.status, value))

\* -------------------------------------------------------- decoder actions
\* unflattenAsync asks the frame sequence for its head
DecStart ==
    /\ decPc = "init" /\ encPc = "init"
    /\ decPc' = "head"
    /\ EncStart
    /\ UNCHANGED <<controllerMap, cbuf, cres, ckind, cpc, obs, res, handed,
                   openAtEnd, caught, rootHeld, ccancel>>

\* the head arrives: the root is rebuilt and returned, the dispatcher starts
\* and asks for the next frame
DecHead ==
    /\ decPc = "head" /\ encPc = "hdr"
    /\ decPc' = "run"
    /\ LET value == Unflatten(out[1].payload)
       IN DSet([Revive(DCur, value.refs)
                  EXCEPT !.handed = RefIds(value.refs),
                         !.rootHeld = Held(value.refs, out[1].at)])
    /\ Set(EncResume([Cur EXCEPT !.out = <<>>]))
    /\ UNCHANGED <<kinds, coerce, root, hookThrows, rootAt, partVars>>

\* a body frame arrives: it is dispatched, and the next frame asked for
DecFrame ==
    /\ decPc = "run" /\ encPc = "body"
    /\ DSet(Dispatch(DCur, out[Len(out)]))
    /\ Set(EncResume([Cur EXCEPT !.out = <<>>]))
    /\ UNCHANGED <<decPc, kinds, coerce, root, hookThrows, rootAt,
                   partVars>>

\* the frame sequence ends
DecEnd ==
    /\ decPc = "run" /\ encPc = "done"
    /\ decPc' = "ended"
    /\ DSet(FeedAll(DCur, InterruptedError))
    /\ UNCHANGED encVars

\* the frame sequence throws
DecFail ==
    /\ decPc = "run" /\ encPc = "threw"
    /\ decPc' = "failed"
    /\ DSet(FailAll(DCur, encErr))
    /\ UNCHANGED encVars

\* the application (or the revived stream's pull) asks the consumer of id
\* for its next entry
ConsNext(id) ==
    /\ cpc[id] \in {"revived", "idle"} /\ id \in handed
    /\ IF cpc[id] = "revived"
       THEN DSet([getController(DCur, id) EXCEPT !.cpc[id] = "reading"])
       ELSE DSet(Take(DCur, id))
    /\ UNCHANGED <<decPc, encVars>>

\* the controller's generator wakes from await deferred.promise
ConsWake(id) ==
    /\ cpc[id] = "reading" /\ id \in controllerMap /\ cres[id]
    /\ DSet(TakeThenReturn([DCur EXCEPT !.cres[id] = FALSE], id))
    /\ UNCHANGED <<decPc, encVars>>

DecInit ==
    /\ decPc = "init"
    /\ controllerMap = {}
    /\ cbuf = [k \in Ids |-> <<>>]
    /\ cres = [k \in Ids |-> FALSE]
    /\ ckind = [k \in Ids |-> "none"]
    /\ cpc = [k \in Ids |-> "none"]
    /\ obs = [k \in Ids |-> <<>>]
    /\ res = [k \in Ids |-> Outcome("none", Plain("none"))]
    /\ handed = {}
    /\ openAtEnd = {}
    /\ caught = "none"
    /\ rootHeld = <<>>
    /\ ccancel = [k \in Ids |-> "no"]

EncOnly == EncNextStep /\ UNCHANGED decVars

\* the encoder alone, its output collected by a consumer that keeps asking
InitEnc ==
    /\ kinds = Kinds
    /\ EncInit /\ hookThrows = FALSE /\ rootAt = OneEach(root) /\ upstream = <<>> /\ DecInit

SpecEnc == InitEnc /\ [][EncOnly]_vars

\* a consumer that keeps asking, sources whose steps all settle, and the
\* continuations of settled promises, which the job queue runs: whenever
\* the encoder can take a step, it takes one
EncFairness == WF_vars(EncOnly)

\* no coerceError configured: a cause that cannot be encoded ends the session
InitEncLive == InitEnc /\ ~coerce

SpecEncLive == InitEncLive /\ [][EncOnly]_vars /\ EncFairness

\* the consumer of stringifyAsync's output calls return() while the output
\* is suspended at a yield: at the header nothing has been started; in the
\* for await the merge generator is returned and runs its cleanup
EncReturn ==
    /\ encPc \in {"hdr", "body"}
    /\ Set(IF encPc = "hdr" THEN [Cur EXCEPT !.encPc = "returned"]
           ELSE BeginDispose(Cur, "break"))
    /\ UNCHANGED <<kinds, coerce, root, hookThrows, rootAt, partVars>>

\* the encoder with a consumer that may stop early, over sources whose
\* return() hooks may throw
InitCancel == kinds = Kinds /\ EncInit /\ rootAt = OneEach(root) /\ upstream = <<>> /\ DecInit

NextCancel ==
    \/ EncOnly
    \/ (EncReturn /\ UNCHANGED decVars)

SpecCancel == InitCancel /\ [][NextCancel]_vars

\* the same with the job queue's guarantee: a continuation that is ready
\* runs (the merge generator woken by the flush signal, the end of the
\* cleanup once every destroy has settled), and a finally block that has
\* been entered completes, i.e. a cancellation hook that has been invoked
\* settles.  Nothing makes a source settle the step it has in flight.
CancelFairness ==
    /\ WF_vars(MergeWake /\ UNCHANGED decVars)
    /\ WF_vars(DisposeFinish /\ UNCHANGED decVars)
    /\ \A k \in Ids : WF_vars(ProducerFinish(k) /\ UNCHANGED decVars)

SpecCancelLive == SpecCancel /\ CancelFairness

\* a second consumer asks the merge engine's sequence for an iterator and
\* its first entry, after the first consumer has started
IterateAgain ==
    /\ mpc # "unstarted"
    /\ Set(asyncIteratorAgain(Cur))
    /\ UNCHANGED <<kinds, coerce, root, hookThrows, rootAt, partVars>>

NextTwice ==
    \/ EncOnly
    \/ (IterateAgain /\ UNCHANGED decVars)

SpecTwice == InitEnc /\ [][NextTwice]_vars

\* the encoder alone, over sources whose values the base codec may refuse
NextRefuse ==
    \/ EncOnly
    \/ \E k \in Ids : SourceRefused(k) /\ UNCHANGED decVars

SpecRefuse == InitEnc /\ [][NextRefuse]_vars

\* encoder and decoder, the decoder reading the encoder's output directly
Init ==
    /\ kinds \in {{"Promise", "AsyncIterable"}}
    /\ EncInit /\ hookThrows = FALSE /\ rootAt = OneEach(root) /\ upstream = <<>> /\ DecInit

Next ==
    \/ DecStart
    \/ DecHead
    \/ DecFrame
    \/ DecEnd
    \/ DecFail
    \/ \E id \in Ids : ConsNext(id)
    \/ \E id \in Ids : ConsWake(id)
    \/ (MergeWake /\ UNCHANGED decVars)
    \/ \E k \in Ids : (SourceYield(k) /\ UNCHANGED decVars)
    \/ \E k \in Ids : (SourceReturn(k) /\ UNCHANGED decVars)
    \/ \E k \in Ids : (SourceThrow(k) /\ UNCHANGED decVars)
    \/ \E k \in Ids : (ProducerFinish(k) /\ UNCHANGED decVars)
    \/ (DisposeFinish /\ UNCHANGED decVars)

Spec == Init /\ [][Next]_vars

\* the same over roots that may hold one async value at several positions
InitDedupe ==
    /\ kinds \in {{"Promise", "AsyncIterable"}}
    /\ EncInit /\ hookThrows = FALSE /\ upstream = <<>> /\ DecInit

SpecDedupe == InitDedupe /\ [][Next]_vars

\* the same over sessions of pull-streams and sequences
InitStream ==
    /\ kinds \in {{"ReadableStream"}}
    /\ EncInit /\ hookThrows = FALSE /\ rootAt = OneEach(root)
    /\ upstream = <<>> /\ DecInit

SpecStream == InitStream /\ [][Next]_vars

\* ------------------------------------ the decoder on any frame sequence
\* the text of the n-th frame's value
WireVal(i) == <<"v1", "v2", "v3", "v4", "v5", "v6">>[i]

WireStatuses == {ASYNC_ITERABLE_STATUS_YIELD, ASYNC_ITERABLE_STATUS_ERROR,
                 ASYNC_ITERABLE_STATUS_RETURN}

\* the placeholders a body frame of id may carry: none, or one for an id
\* that no earlier frame has referenced
WireRefs(id) ==
    {<<>>} \cup {<<[name |-> kd, id |-> j]>> :
                    kd \in kinds, j \in {x \in Ids \ {id} : ckind[x] = "none"}}

\* what the frame sequence can throw: an Error, or some other value
WireCauses == {"transport error", "thrown string"}

\* a frame the dispatcher cannot take: text that is not JSON, an id or a
\* status that is not a number, a payload the base codec refuses
Shapes == {"syntax", "id", "status", "payload"}
Malformed(shape, id) ==
    [tag |-> "malformed", id |-> id, status |-> 0,
     payload |-> Payload(shape, <<>>)]

\* JSON.parse / assertNumber / unflatten on such a frame
FrameError(shape) ==
    CASE shape = "syntax" -> "SyntaxError"
      [] shape \in {"id", "status"} -> "Expected number"
      [] OTHER -> "Invalid input"

WireUnchanged ==
    UNCHANGED <<kinds, coerce, root, counter, kindOf, state, iterables,
                iterators, buffer, flushSignal, mpc, mcur, mexit, itState,
                onResult, ppc, retq, dst, n, cancels, term, encPc, encErr,
                hookThrows, returns, errors, liveAtExit, second, rootAt,
                partVars>>

\* the head arrives: the root is rebuilt and returned, the dispatcher starts
WireHead ==
    /\ decPc = "init"
    /\ LET frame == Header(NewIds([counter |-> 0], root), rootAt)
           value == Unflatten(frame.payload)
       IN /\ out' = <<frame>>
          /\ DSet([Revive(DCur, value.refs)
                     EXCEPT !.handed = RefIds(value.refs),
                            !.rootHeld = Held(value.refs, frame.at)])
    /\ decPc' = "run"
    /\ WireUnchanged

\* a well-formed body frame arrives and is dispatched
WireFrame ==
    /\ decPc = "run" /\ Len(out) <= MaxFrames
    /\ \E id \in Ids, status \in WireStatuses :
          \E refs \in WireRefs(id) :
             LET frame == Body(id, status, Payload(WireVal(Len(out)), refs))
             IN /\ out' = Append(out, frame)
                /\ DSet(Dispatch(DCur, frame))
    /\ UNCHANGED decPc
    /\ WireUnchanged

\* a malformed frame arrives: the dispatcher throws into its own catch; with
\* a bad payload getController(idx) has run before unflatten throws
WireMalformed ==
    /\ decPc = "run" /\ Len(out) <= MaxFrames
    /\ \E shape \in Shapes :
          \E id \in (IF shape = "payload" THEN Ids ELSE {0}) :
             /\ out' = Append(out, Malformed(shape, id))
             /\ DSet(FailAll(IF shape = "payload" THEN getController(DCur, id)
                             ELSE DCur,
                             FrameError(shape)))
    /\ decPc' = "failed"
    /\ WireUnchanged

\* the frame sequence ends
WireEnd ==
    /\ decPc = "run"
    /\ decPc' = "ended"
    /\ DSet(FeedAll(DCur, InterruptedError))
    /\ UNCHANGED out
    /\ WireUnchanged

\* the frame sequence throws
WireThrow ==
    /\ decPc = "run"
    /\ decPc' = "failed"
    /\ \E cause \in WireCauses : DSet(FailAll(DCur, cause))
    /\ UNCHANGED out
    /\ WireUnchanged

InitDec ==
    /\ kinds = Kinds
    /\ EncInit /\ coerce = FALSE /\ hookThrows = FALSE
    /\ rootAt = OneEach(root) /\ upstream = <<>> /\ DecInit

NextDec ==
    \/ WireHead
    \/ WireFrame
    \/ WireMalformed
    \/ WireEnd
    \/ WireThrow
    \/ \E id \in Ids : ConsNext(id)
    \/ \E id \in Ids : ConsWake(id)

SpecDec == InitDec /\ [][NextDec]_vars

\* consumers that keep reading, and the continuations of resolved deferreds
DecFairness ==
    \A id \in Ids : WF_vars(ConsNext(id)) /\ WF_vars(ConsWake(id))

SpecDecLive == SpecDec /\ DecFairness

\* the application cancels a revived sequence or stream it holds
ConsReturn(id) ==
    /\ id \in handed /\ ccancel[id] = "no"
    /\ \/ ckind[id] = "AsyncIterable" /\ cpc[id] \in {"revived", "idle", "reading"}
       \/ ckind[id] = "ReadableStream" /\ cpc[id] \in {"idle", "reading"}
    /\ DSet(consReturn(DCur, id))
    /\ UNCHANGED <<decPc, encVars>>

NextDecCancel ==
    \/ NextDec
    \/ \E id \in Ids : ConsReturn(id)

SpecDecCancel == InitDec /\ [][NextDecCancel]_vars

\* --------------------------------- the line framing on any cut of a text
LineUnchanged ==
    UNCHANGED <<kinds, coerce, root, counter, kindOf, state, iterables,
                iterators, buffer, flushSignal, mpc, mcur, mexit, itState,
                onResult, ppc, retq, dst, n, cancels, term, encPc, encErr,
                hookThrows, returns, errors, liveAtExit, second, rootAt, out,
                miVars, decVars>>

InitLines ==
    /\ kinds = Kinds
    /\ EncInit /\ root = <<>> /\ coerce = FALSE /\ hookThrows = FALSE
    /\ upstream \in Cuttings
    /\ DecInit

NextLines ==
    \/ (LineChunk /\ LineUnchanged)
    \/ (LineEnd /\ LineUnchanged)

SpecLines == InitLines /\ [][NextLines]_vars

\* ------------------- a managed iterator under any calls of pull/destroy
ManagedUnchanged ==
    UNCHANGED <<kinds, coerce, root, counter, kindOf, state, iterables,
                iterators, buffer, flushSignal, mpc, mcur, mexit, itState,
                onResult, ppc, retq, dst, n, cancels, term, encPc, encErr,
                hookThrows, returns, errors, liveAtExit, second, rootAt, out,
                lineVars, decVars>>

InitManaged ==
    /\ kinds = Kinds
    /\ EncInit /\ root = <<>> /\ coerce = FALSE /\ hookThrows = FALSE
    /\ upstream = <<>> /\ DecInit

NextManaged ==
    \/ (MiPull /\ ManagedUnchanged)
    \/ (MiDestroy /\ ManagedUnchanged)
    \/ (MiStepYield /\ ManagedUnchanged)
    \/ (MiStepDone /\ ManagedUnchanged)
    \/ (MiStepThrow /\ ManagedUnchanged)

SpecManaged == InitManaged /\ [][NextManaged]_vars

\* ================================================================= claims
Registered == {k \in Ids : kindOf[k] # "none"}
SeqIds == {k \in Registered : kindOf[k] \in {"AsyncIterable", "ReadableStream"}}
PromiseIds == {k \in Registered : kindOf[k] = "Promise"}

IsFrameOf(f, k) == f.tag = "body" /\ f.id = k
FramesOf(k) == SelectSeq(out, LAMBDA f : IsFrameOf(f, k))
TerminalStatus == {ASYNC_ITERABLE_STATUS_ERROR, ASYNC_ITERABLE_STATUS_RETURN}

\* C1: the body frames of a sequence or pull-stream id are yield frames
\* followed by at most one terminal frame (error or return), nothing follows
\* the terminal frame, and when the output has completed there is exactly one
\* terminal frame.
C1_SequenceFrames ==
    \A k \in SeqIds :
        LET fs == FramesOf(k)
        IN /\ \A i \in 1 .. Len(fs) :
                 IF i < Len(fs) THEN fs[i].status = ASYNC_ITERABLE_STATUS_YIELD
                 ELSE fs[i].status \in TerminalStatus \cup {ASYNC_ITERABLE_STATUS_YIELD}
           /\ encPc = "done" =>
                 /\ Len(fs) >= 1
                 /\ fs[Len(fs)].status \in TerminalStatus

C1_Witness ==
    /\ encPc = "done"
    /\ \E k \in SeqIds :
          /\ Len(FramesOf(k)) = 3
          /\ FramesOf(k)[3].status \in TerminalStatus

\* C2: a promise id has at most one body frame, its status is fulfilled or
\* rejected, and when the output has completed it has exactly one.
C2_PromiseFrames ==
    \A k \in PromiseIds :
        LET fs == FramesOf(k)
        IN /\ Len(fs) <= 1
           /\ \A i \in 1 .. Len(fs) :
                 fs[i].status \in {PROMISE_STATUS_FULFILLED, PROMISE_STATUS_REJECTED}
           /\ encPc = "done" => Len(fs) = 1

C2_Witness ==
    /\ encPc = "done"
    /\ \E k \in PromiseIds : Len(FramesOf(k)) = 1
    /\ \E k \in PromiseIds : \E j \in SeqIds : Len(FramesOf(j)) >= 2

\* C3: the first frame is the header, every later frame is a body frame
\* [id, status, payload] of a registered id, and until the frame after the
\* header is asked for no source has been stepped.
C3_HeaderFirst ==
    /\ \A i \in 1 .. Len(out) :
          IF i = 1 THEN out[i].tag = "header"
          ELSE /\ out[i].tag = "body"
               /\ out[i].id \in Registered
               /\ out[i].status \in {0, 1, 2}
    /\ encPc \in {"init", "hdr"} =>
          /\ \A k \in Ids : ppc[k] = "new" /\ itState[k] = "none" /\ n[k] = 0
          /\ buffer = <<>>
    /\ encPc = "init" => out = <<>>

C3_Witness ==
    /\ encPc = "hdr" /\ Len(out) = 1 /\ counter = 2
    /\ iterables = <<1, 2>>

\* the placeholders of the frames emitted so far, in order
RECURSIVE RefsOfFrames(_)
RefsOfFrames(fs) ==
    IF fs = <<>> THEN <<>>
    ELSE Head(fs).payload.refs \o RefsOfFrames(Tail(fs))

\* C4: the ids handed out are 1, 2, 3, ... in order of discovery: an id once
\* assigned keeps its producer, every new id is greater than all before, and
\* no id stands in two placeholders.
C4_StateOK ==
    /\ Registered = 1 .. counter
    /\ LET rs == RefsOfFrames(out)
       IN /\ \A i \in 1 .. Len(rs) : rs[i].id \in Registered
                                      /\ rs[i].name = kindOf[rs[i].id]
          /\ \A i, j \in 1 .. Len(rs) : i < j => rs[i].id < rs[j].id
    /\ Len(out) >= 1 => \A i \in 1 .. Len(root) : out[1].payload.refs[i].id = i

C4_StepOK ==
    /\ counter' >= counter
    /\ \A k \in Ids : kindOf[k] # "none" => kindOf'[k] = kindOf[k]
    /\ \A k \in Ids : (kindOf[k] = "none" /\ kindOf'[k] # "none") => k > counter

C4_IdsMonotonic == [][C4_StepOK]_vars /\ []C4_StateOK

C4_Witness ==
    /\ counter = 2 /\ Len(root) = 1
    /\ \E i \in 2 .. Len(out) :
          /\ out[i].id = 1
          /\ Len(out[i].payload.refs) = 1
          /\ out[i].payload.refs[1].id = 2

\* C5: the values of one source come out of the merge engine in the order
\* the source produced them, none twice: the i-th frame of an id is the i-th
\* frame its producer made (whose value is i while the source yields).
C5_PerSourceOrder ==
    \A k \in Registered :
        LET fs == FramesOf(k)
        IN /\ Len(fs) <= n[k] + 1
           /\ \A i \in 1 .. Len(fs) :
                 /\ i <= n[k] => /\ fs[i].payload.enc = <<"devalue", i>>
                                 /\ fs[i].status = ASYNC_ITERABLE_STATUS_YIELD
                 /\ i = n[k] + 1 => term[k] # "none"

C5_Witness ==
    /\ \E k, j \in SeqIds :
          /\ k # j
          /\ Len(FramesOf(k)) >= 2 /\ Len(FramesOf(j)) >= 2
          /\ \E a, b, c \in 1 .. Len(out) :
                /\ a < b /\ b < c
                /\ IsFrameOf(out[a], k) /\ IsFrameOf(out[b], j) /\ IsFrameOf(out[c], k)

\* ------------------------------------------------------------ round trips
RevivedSeqs == {k \in Ids : ckind[k] = "AsyncIterable"}
RevivedPromises == {k \in Ids : ckind[k] = "Promise"}
Settled(k) == res[k].how # "none"

\* a settled consumer stays as it is: no item, return or throw after the end
Stable(k) ==
    Settled(k) => /\ res'[k] = res[k]
                  /\ obs'[k] = obs[k]
                  /\ cpc'[k] = cpc[k]

\* a consumer that waits after the frames have ended has an entry to wake for
NotStuck(k) ==
    (decPc = "ended" /\ cpc[k] = "reading") =>
        /\ k \in controllerMap /\ cres[k] /\ cbuf[k] # <<>>
        /\ Head(cbuf[k]).tag = "chunk"

C6_StateOK ==
    \A k \in RevivedSeqs :
        /\ Len(obs[k]) <= n[k]
        /\ \A i \in 1 .. Len(obs[k]) : obs[k][i].v = i
        /\ res[k].how = "return" =>
              /\ term[k] = "return"
              /\ Len(obs[k]) = n[k]
              /\ res[k].value.v = "r"
        /\ (term[k] = "return" /\ decPc = "ended") =>
              /\ res[k].how \in {"none", "return"}
              /\ NotStuck(k)

C6_StepOK ==
    \A k \in RevivedSeqs :
        /\ res[k].how = "return" => Stable(k)
        /\ \A i \in 1 .. Len(obs[k]) :
              Len(obs'[k]) >= Len(obs[k]) /\ obs'[k][i] = obs[k][i]

\* C6: a source sequence that yields v1..vn and returns r is revived as a
\* sequence whose consumer is given v1..vn in that order, each once, and then
\* the completion carrying r, however frame arrival and reads interleave; a
\* consumer that reads on after the frames have ended is never left waiting.
C6_SequenceRoundTrip == []C6_StateOK /\ [][C6_StepOK]_vars

C6_Witness ==
    \E k \in RevivedSeqs :
        /\ res[k] = [how |-> "return", value |-> [v |-> "r", refs |-> <<>>]]
        /\ Len(obs[k]) = 2
        /\ cpc[k] = "done"

C7_StateOK ==
    \A k \in RevivedSeqs :
        /\ (res[k].how = "throw" /\ res[k].value.v \in {"E", "W"}) =>
              /\ term[k] \in Causes
              /\ Len(obs[k]) = n[k]
              /\ \A i \in 1 .. n[k] : obs[k][i].v = i
              /\ term[k] = "E" => res[k].value.v = "E"
        /\ (term[k] = "E" /\ decPc = "ended") =>
              /\ res[k].how = "none" \/ res[k] = [how |-> "throw", value |-> Plain("E")]
              /\ NotStuck(k)

C7_StepOK ==
    \A k \in RevivedSeqs : res[k].how = "throw" => Stable(k)

\* C7: a source sequence that yields v1..vn and then throws an encodable
\* cause e is revived as a sequence whose consumer is given v1..vn in order
\* and then the throw of e: the throw never comes before all n items, and no
\* item and no return comes after it.
C7_FailingSequenceRoundTrip == []C7_StateOK /\ [][C7_StepOK]_vars

C7_Witness ==
    \E k \in RevivedSeqs :
        /\ term[k] = "E"
        /\ res[k] = [how |-> "throw", value |-> Plain("E")]
        /\ Len(obs[k]) = 2
        /\ cpc[k] = "threw"

C8_StateOK ==
    \A k \in RevivedPromises :
        /\ obs[k] = <<>>
        /\ res[k].how = "fulfilled" =>
              term[k] = "return" /\ res[k].value.v = "r"
        /\ res[k].how = "rejected" =>
              /\ term[k] \in Causes
              /\ term[k] = "E" => res[k].value.v = "E"
        /\ (term[k] \in {"return", "E"} /\ decPc = "ended") =>
              /\ res[k].how = (IF term[k] = "E" THEN "rejected" ELSE "fulfilled")
                 \/ (res[k].how = "none" /\ cpc[k] = "reading")
              /\ NotStuck(k)

C8_StepOK ==
    \A k \in RevivedPromises :
        /\ Stable(k)
        /\ (~Settled(k) /\ res'[k].how \in {"fulfilled", "rejected"}) =>
              /\ cbuf[k] # <<>>
              /\ Head(cbuf[k]).tag = "chunk"
              /\ ppc[k] \notin {"new", "await"}

\* C8: a source promise that fulfils with v is revived as a promise that
\* fulfils with v, one that rejects with an encodable cause e as a promise
\* that rejects with e; the revived promise settles once, and not before its
\* body frame has been dispatched to its controller.
C8_PromiseRoundTrip == []C8_StateOK /\ [][C8_StepOK]_vars

C8_Witness ==
    \E k, j \in RevivedPromises :
        /\ res[k].how = "fulfilled" /\ res[k].value.v = "r"
        /\ res[j] = [how |-> "rejected", value |-> Plain("E")]

\* -------------------------------------------------------- error isolation
\* id k is the only source that has failed, and no other source is a
\* pull-stream
OnlyFailure(k) ==
    /\ k \in Registered
    /\ \A j \in Registered \ {k} :
          term[j] \in {"none", "return"} /\ kindOf[j] # "ReadableStream"

ErrorFrames(k) ==
    SelectSeq(FramesOf(k),
              LAMBDA f : f.status = IF kindOf[k] = "Promise"
                                    THEN PROMISE_STATUS_REJECTED
                                    ELSE ASYNC_ITERABLE_STATUS_ERROR)

\* C9: when one source throws or rejects with an encodable cause, the
\* output does not throw: the failing id gets its error frame, the session
\* runs on, and once it has completed every other id has its terminal frame.
C9_ErrorIsolation ==
    \A k \in Ids :
        (OnlyFailure(k) /\ term[k] = "E") =>
            /\ encPc # "threw"
            /\ Len(ErrorFrames(k)) <= 1
            /\ \A j \in Registered \ {k} : ErrorFrames(j) = <<>>
            /\ encPc = "done" =>
                  /\ Len(ErrorFrames(k)) = 1
                  /\ \A j \in Registered \ {k} :
                        term[j] = "return" /\ Len(FramesOf(j)) = n[j] + 1

\* C10: when a source fails with a cause the reducers cannot encode and
\* coerceError is configured, the id's terminal frame carries the encoding
\* of coerceError(cause), the output does not throw, and once it has
\* completed every other id has its terminal frame.
C10_CoercedError ==
    \A k \in Ids :
        (OnlyFailure(k) /\ term[k] = "U" /\ coerce) =>
            /\ encPc # "threw"
            /\ \A i \in 1 .. Len(ErrorFrames(k)) :
                  ErrorFrames(k)[i].payload.enc = <<"devalue", coerceError("U")>>
            /\ encPc = "done" =>
                  /\ Len(ErrorFrames(k)) = 1
                  /\ \A j \in Registered \ {k} :
                        term[j] = "return" /\ Len(FramesOf(j)) = n[j] + 1

\* ------------------------------------------------------- escaping errors
\* id k is the only source that has failed
SoleFailure(k) ==
    /\ k \in Registered
    /\ \A j \in Registered \ {k} : term[j] \in {"none", "return"}

\* every producer has been left: it finished by itself, was destroyed, or
\* was never started
AllProducersLeft ==
    /\ iterators = {}
    /\ \A j \in Registered :
          \/ ppc[j] \in {"new", "done", "threw"}
          \/ dst[j] \in {"ok", "err"}

\* C11: when a source fails with a cause that cannot be encoded and no
\* coerceError is configured, the output does not complete normally; what it
\* throws to its consumer is the encoding error, and by then every other
\* producer that was still live has been destroyed.
C11_EncodingErrorEscapes ==
    \A k \in Ids :
        (SoleFailure(k) /\ term[k] = "U" /\ ~coerce) =>
            /\ encPc # "done"
            /\ encPc = "threw" => (encErr = "D" /\ AllProducersLeft)

\* ------------------------------------------------------- demultiplexing
\* the entries of a controller's buffer that are frames
ChunksOf(k) == SelectSeq(cbuf[k], LAMBDA c : c.tag = "chunk")

\* a dispatched frame as the entry the dispatcher pushes for it
AsValue(f) == [v |-> f.payload.enc[2], refs |-> f.payload.refs]
AsChunk(f) == [tag |-> "chunk", status |-> f.status, value |-> AsValue(f)]

\* the errors a controller is fed when the dispatcher stops
FinalErrors ==
    {"Stream interrupted: malformed stream", "transport error",
     "Stream interrupted [cause: thrown string]", "SyntaxError",
     "Expected number", "Invalid input"}

BySentinel(k) == res[k].how = "throw" /\ res[k].value.v \in FinalErrors
ByFrame(k) == Settled(k) /\ ~BySentinel(k)

\* the outcome the reviver of the given kind makes of a frame
OutcomeOf(kind, f) ==
    CASE kind = "Promise" ->
           IF f.status = PROMISE_STATUS_FULFILLED
           THEN [how |-> "fulfilled", value |-> AsValue(f)]
           ELSE IF f.status = PROMISE_STATUS_REJECTED
           THEN [how |-> "rejected", value |-> AsValue(f)]
           ELSE [how |-> "throw",
                 value |-> [v |-> "Unknown promise status", refs |-> <<>>]]
      [] kind = "AsyncIterable" ->
           IF f.status = ASYNC_ITERABLE_STATUS_RETURN
           THEN [how |-> "return", value |-> AsValue(f)]
           ELSE [how |-> "throw", value |-> AsValue(f)]
      [] OTHER ->
           IF f.status = ASYNC_ITERABLE_STATUS_RETURN
           THEN [how |-> "close", value |-> [v |-> "none", refs |-> <<>>]]
           ELSE [how |-> "throw", value |-> AsValue(f)]

TerminalFor(kind, f) ==
    kind = "Promise" \/ f.status \in TerminalStatus

\* C12: for every id and every interleaving of frame dispatch and consumer
\* reads, the consumer is given the frames dispatched for its id in dispatch
\* order, none lost and none twice, up to and including the terminal frame:
\* what it has been given is a prefix of the dispatched frames, what it has
\* not yet been given waits in the controller's buffer in dispatch order,
\* whichever of reviver and dispatcher created the controller.
C12_DemuxLosesNothing ==
    \A k \in Ids :
        LET fs == FramesOf(k)
            seen == Len(obs[k])
        IN /\ seen <= Len(fs)
           /\ \A i \in 1 .. seen :
                 /\ obs[k][i] = AsValue(fs[i])
                 /\ fs[i].status = ASYNC_ITERABLE_STATUS_YIELD
                 /\ ckind[k] # "Promise"
           /\ ByFrame(k) =>
                 /\ seen + 1 <= Len(fs)
                 /\ TerminalFor(ckind[k], fs[seen + 1])
                 /\ res[k] = OutcomeOf(ckind[k], fs[seen + 1])
           /\ BySentinel(k) => seen = Len(fs)
           /\ ~Settled(k) =>
                 /\ Len(ChunksOf(k)) = Len(fs) - seen
                 /\ \A i \in 1 .. Len(ChunksOf(k)) :
                       ChunksOf(k)[i] = AsChunk(fs[seen + i])
                 /\ (cpc[k] = "reading" /\ ChunksOf(k) # <<>>) => cres[k]

C12_Witness ==
    \E k, j \in Ids :
        /\ k # j
        /\ ckind[k] = "AsyncIterable" /\ ckind[j] = "AsyncIterable"
        /\ Len(obs[k]) = 1 /\ cpc[k] = "reading" /\ cbuf[k] = <<>>
        /\ cpc[j] = "revived" /\ j \in controllerMap
        /\ Len(ChunksOf(j)) = 2
        /\ ChunksOf(j)[2].status = ASYNC_ITERABLE_STATUS_RETURN

\* ---------------------------------------------- the frame sequence stops
Interrupted ==
    [how |-> "throw",
     value |-> [v |-> "Stream interrupted: malformed stream", refs |-> <<>>]]

\* a frame that ends the view of id k's consumer has been dispatched
HasTerminal(k) ==
    \E i \in 1 .. Len(FramesOf(k)) : TerminalFor(ckind[k], FramesOf(k)[i])

\* every controller of the map gets the entry err behind what it holds, the
\* others nothing
FedToAll(err) ==
    \A k \in Ids :
        IF k \in controllerMap
        THEN /\ cbuf'[k] = Append(cbuf[k], [tag |-> "sentinel", err |-> err])
             /\ cres'[k]
        ELSE cbuf'[k] = cbuf[k]

\* a consumer whose controller was fed a final error finds it: it is not
\* left waiting, and it ends with the error exactly when no terminal frame
\* of its id was dispatched before
ReachesFinal(k, outcome) ==
    /\ Settled(k) => (res[k] = outcome <=> ~HasTerminal(k))
    /\ res[k] = outcome => Len(obs[k]) = Len(FramesOf(k))
    /\ ~Settled(k) =>
          /\ k \in controllerMap /\ cbuf[k] # <<>>
          /\ cbuf[k][Len(cbuf[k])].tag = "sentinel"
          /\ cpc[k] = "reading" => cres[k]

C13_StepOK ==
    (decPc = "run" /\ decPc' = "ended") =>
        FedToAll("Stream interrupted: malformed stream")

C13_StateOK ==
    decPc = "ended" => \A k \in openAtEnd : ReachesFinal(k, Interrupted)

Thrown(err) == [how |-> "throw", value |-> [v |-> err, refs |-> <<>>]]

\* what the controllers are fed for a value thrown by the frame sequence
FedFor(cause) ==
    IF cause = "thrown string"
    THEN "Stream interrupted [cause: thrown string]"
    ELSE cause

TransportThrew == decPc = "failed" /\ caught \in {"transport error", "thrown string"}

C14_StepOK ==
    (decPc = "run" /\ decPc' = "failed" /\ out' = out) =>
        /\ caught' \in {"transport error", "thrown string"}
        /\ FedToAll(FedFor(caught'))

C14_StateOK ==
    TransportThrew => \A k \in openAtEnd : ReachesFinal(k, Thrown(FedFor(caught)))

MalformedIn(fs) == {i \in 1 .. Len(fs) : fs[i].tag = "malformed"}

\* the error of a malformed frame, by what is wrong with it
ErrorOfFrame(f) ==
    CASE f.payload.enc[2] = "syntax" -> "SyntaxError"
      [] f.payload.enc[2] \in {"id", "status"} -> "Expected number"
      [] OTHER -> "Invalid input"

C15_StepOK ==
    /\ (decPc = "run" /\ Len(out') = Len(out) + 1
          /\ out'[Len(out')].tag = "malformed") =>
          LET f == out'[Len(out')]
              bad == f.payload.enc[2] = "payload"
          IN /\ decPc' = "failed"
             /\ caught' = ErrorOfFrame(f)
             /\ obs' = obs /\ res' = res /\ cpc' = cpc /\ handed' = handed
             /\ ~bad => FedToAll(ErrorOfFrame(f))
             /\ bad =>
                   \A k \in Ids :
                      IF k \in controllerMap \cup {f.id}
                      THEN /\ k \in controllerMap'
                           /\ cbuf'[k] =
                                 Append(IF k \in controllerMap THEN cbuf[k] ELSE <<>>,
                                        [tag |-> "sentinel", err |-> ErrorOfFrame(f)])
                      ELSE cbuf'[k] = cbuf[k]
    /\ decPc = "failed" =>
          /\ out' = out /\ decPc' = decPc
          /\ \A k \in Ids : Len(ChunksOf(k)') <= Len(ChunksOf(k))

C15_StateOK ==
    MalformedIn(out) # {} =>
        /\ MalformedIn(out) = {Len(out)}
        /\ decPc = "failed"
        /\ \A k \in openAtEnd :
              ReachesFinal(k, Thrown(ErrorOfFrame(out[Len(out)])))

RootIds == 1 .. Len(root)

C16_StepOK ==
    (decPc = "init" /\ decPc' # "init") =>
        /\ decPc' = "run"
        /\ Len(out') = 1 /\ out'[1].tag = "header"
        /\ handed' = RootIds
        /\ \A k \in Ids :
              /\ res'[k].how = "none" /\ cbuf'[k] = <<>>
              /\ k \in RootIds => ckind'[k] = root[k]

C16_StateOK ==
    /\ Len(out) >= 1 => (decPc # "init" /\ RootIds \subseteq handed)
    /\ \A k \in Ids :
          /\ Settled(k) => decPc # "init"
          /\ ByFrame(k) => FramesOf(k) # <<>>

\* C16: unflattenAsync has returned the rebuilt root once the header frame
\* has been read: at that moment no body frame has been read and no async
\* leaf of the root has settled; the root stays returned whatever the frame
\* sequence does next, and a leaf settles by a frame only after a frame of
\* its id has arrived.
C16_RootAtHeader == []C16_StateOK /\ [][C16_StepOK]_vars

C16_Witness ==
    /\ decPc = "ended" /\ Len(out) = 1
    /\ handed = {1, 2}
    /\ \A k \in Ids : ~Settled(k)

\* ---------------------------------------------------------------------
\* the merge generator has been left: by completion, by a thrown source
\* error or by the consumer's return()
MergeLeft == mexit # "none"

\* the consumer of the merge generator is inside its loop
InLoop == mpc \in {"await", "yield"}

\* destroy() of the managed iterator of id k has settled
Destroyed(k) == returns[k] = 1 /\ dst[k] \in {"ok", "err"}

C17_StateOK ==
    /\ MergeLeft <=> mpc \in {"disposing", "done"}
    /\ MergeLeft =>
          /\ state = "done"
          /\ \A k \in liveAtExit : returns[k] = 1 /\ dst[k] # "no"
    /\ mpc = "done" =>
          /\ iterators = {} /\ buffer = <<>> /\ flushSignal
          /\ \A k \in liveAtExit : Destroyed(k)
    /\ (encPc \in {"done", "threw", "returned"} /\ mpc # "unstarted")
          => mpc = "done"

C17_StepOK ==
    /\ (InLoop /\ ~InLoop') =>
          /\ mpc' = "disposing"
          /\ liveAtExit' = iterators
          /\ mexit' # "none"
    /\ (mpc = "disposing" /\ mpc' = "done") =>
          \A k \in liveAtExit : Destroyed(k)

\* C17: the cleanup of the merge engine runs on every exit of its consumer
\* (completion, a thrown source error, an early return): leaving the loop
\* starts it on the iterators then live, and when it has finished each of
\* them has been destroyed and the live set and the buffer are empty
C17_CleanupOnEveryExit == []C17_StateOK /\ [][C17_StepOK]_vars

\* a source error ended the merge generator while another iterator was
\* live, and the cleanup has finished
C17_Witness ==
    /\ mpc = "done" /\ mexit \notin {"none", "normal", "break"}
    /\ liveAtExit # {}
    /\ \A k \in liveAtExit : Destroyed(k)

\* ---------------------------------------------------------------------
\* the ids whose destroy() failed during the cleanup
FailedDestroys == {k \in liveAtExit : dst[k] = "err"}

\* the errors array holds one error per failed destroy, and nothing else
CarriesFailedDestroys ==
    /\ Len(errors) = Cardinality(FailedDestroys)
    /\ {errors[i].it : i \in 1 .. Len(errors)} = FailedDestroys
    /\ \A i \in 1 .. Len(errors) :
          errors[i].cause = IF kindOf[errors[i].it] = "ReadableStream"
                            THEN "T" ELSE "H"

\* C18: when the cleanup of the merge engine has ended with k >= 1 failed
\* destroys, the consumer observes one AggregateError carrying exactly
\* those k errors, and every iterator live at the exit has been destroyed
C18_CompositeOfDestroyErrors ==
    (mpc = "done" /\ Len(errors) >= 1) =>
        /\ encPc = "threw" /\ encErr = "AggregateError"
        /\ CarriesFailedDestroys
        /\ \A k \in liveAtExit : Destroyed(k)

\* the same for the exits by completion and by the consumer's return()
C18_AfterBreak ==
    (mexit \in {"normal", "break"}) => C18_CompositeOfDestroyErrors

\* the errors are collected and every iterator is destroyed on each exit
C18_Collected ==
    (mpc = "done") =>
        /\ CarriesFailedDestroys
        /\ \A k \in liveAtExit : Destroyed(k)

\* ---------------------------------------------------------------------
\* the sources the merge engine has started
Started == {k \in Ids : itState[k] # "none"}

\* the consumer has left the merge generator by return()
Broke == mexit = "break"

C19_StateOK ==
    /\ \A k \in Ids : returns[k] <= 1
    /\ ~MergeLeft =>
          \A k \in Started \ iterators : ppc[k] \in {"done", "threw"}
    /\ Broke =>
          /\ liveAtExit \subseteq Started
          /\ \A k \in Ids : returns[k] = IF k \in liveAtExit THEN 1 ELSE 0

C19_StepOK ==
    (~Broke /\ Broke') =>
        /\ liveAtExit' = iterators
        /\ \A k \in Ids : returns'[k] = IF k \in iterators THEN 1 ELSE 0

\* C19 (amended): when the consumer of the merge engine breaks out early,
\* return() is called exactly once on every source still live at the break
\* and on no source that had already finished; no source is ever cancelled
\* twice
C19_OneCancelPerLiveSource == []C19_StateOK /\ [][C19_StepOK]_vars

\* the consumer broke out with one source live and one already finished
C19_Witness ==
    /\ Broke /\ mpc = "done"
    /\ \E k \in liveAtExit : returns[k] = 1
    /\ \E k \in Started \ liveAtExit : returns[k] = 0

\* C19 as stated: after the break every source the engine was given has
\* had return() called exactly once
C19_Original ==
    Broke => \A k \in Started : returns[k] = 1

\* ---------------------------------------------------------------------
\* the cancellation of the output has completed
CancelCompleted == mpc = "done" /\ encPc \in {"returned", "threw"}

\* the cancellation hook of every source live at the cancellation has been
\* invoked (a promise has none)
HooksInvoked ==
    \A k \in liveAtExit : kindOf[k] # "Promise" => cancels[k] >= 1

\* what the canceller is given: nothing when no destroy failed, else one
\* AggregateError carrying the errors of the failed destroys
CompositeToCanceller ==
    (Broke /\ CancelCompleted) =>
        /\ CarriesFailedDestroys
        /\ IF Len(errors) = 0 THEN encPc = "returned" /\ encErr = "none"
           ELSE encPc = "threw" /\ encErr = "AggregateError"

\* C20: once the output of the encoder has been cancelled inside its loop,
\* eventually the hook of every source live at that moment has been invoked
\* and the cancellation has completed, and the errors of the hooks reach
\* the canceller as one composite
C20_CancelCascades ==
    /\ Broke ~> (CancelCompleted /\ HooksInvoked)
    /\ []CompositeToCanceller

\* a cancellation that completed after the hooks of two live sources ran
C20_Completed ==
    /\ Broke /\ CancelCompleted /\ HooksInvoked
    /\ Cardinality({k \in liveAtExit : kindOf[k] # "Promise"}) = 2

\* a hook that was invoked was invoked because its source had settled its
\* step or was suspended at a yield: never while a step is in flight
C20_HookWaitsForStep ==
    \A k \in Ids : (ppc[k] = "await" /\ retq[k]) => dst[k] = "wait"

\* the cancel() of a pull stream's reader always fails, so a stream live
\* at the cancellation whose hook ran should appear in the composite
C20_HookErrorsReach ==
    (Broke /\ CancelCompleted) =>
        \A k \in liveAtExit :
            (kindOf[k] = "ReadableStream" /\ cancels[k] >= 1)
                => /\ encErr = "AggregateError"
                   /\ \E i \in 1 .. Len(errors) : errors[i].it = k

\* ---------------------------------------------------------------------
\* the state of the merge engine and of what it feeds
EngineVars ==
    <<state, iterables, iterators, buffer, flushSignal, mpc, mcur, mexit,
      itState, onResult, ppc, retq, dst, n, cancels, term, out, encPc,
      encErr, returns, errors, liveAtExit, counter, kindOf>>

\* the step is a second consumer being answered
Refused == second = "none" /\ second' # "none"

C21_StepOK ==
    /\ Refused =>
          /\ state \in {"pending", "done"}
          /\ second' = "Cannot iterate twice"
          /\ UNCHANGED EngineVars
    /\ (second # "none") => second' = second

C21_StateOK ==
    (second # "none") =>
        /\ second = "Cannot iterate twice"
        /\ mexit # "Cannot iterate twice"
        /\ (mpc \in {"disposing", "done"}) <=> MergeLeft

\* C21: a second attempt to iterate the merge engine's sequence while a
\* first consumer iterates it is answered "Cannot iterate twice"; the step
\* leaves the live set, the buffer and everything else of the engine as
\* they were, and starts no cleanup
C21_CannotIterateTwice == []C21_StateOK /\ [][C21_StepOK]_vars

\* the second consumer has been refused and the first is in the middle of
\* its iteration, with two live iterators and a result in the buffer
C21_Witness ==
    /\ second = "Cannot iterate twice"
    /\ state = "pending" /\ mpc \in {"await", "yield"}
    /\ Cardinality(iterators) = 2 /\ buffer # <<>>

\* ---------------------------------------------------------------------
\* the positions of the root that hold its async value v
PositionsOf(v) == {i \in DOMAIN rootAt : rootAt[i] = v}

\* the promises of the root
RootPromises == {v \in 1 .. Len(root) : root[v] = "Promise"}

\* the frame of a promise is in its controller's buffer, or has settled it
FrameArrived(v) ==
    \/ res[v].how \in {"fulfilled", "rejected"}
    \/ /\ cbuf[v] # <<>> /\ Head(cbuf[v]).tag = "chunk"

C22_StateOK ==
    /\ encPc = "hdr" =>
          /\ counter = Len(root)
          /\ out[1].at = rootAt
          /\ Len(out[1].payload.refs) = Len(root)
          /\ \A v \in 1 .. Len(root) :
                out[1].payload.refs[v] = [name |-> root[v], id |-> v]
    /\ encPc # "init" => \A v \in 1 .. Len(root) : kindOf[v] = root[v]
    /\ decPc \in {"run", "ended", "failed"} =>
          /\ Len(rootHeld) = Len(rootAt)
          /\ \A i \in DOMAIN rootAt :
                rootHeld[i] = [name |-> root[rootAt[i]], id |-> rootAt[i]]
          /\ \A v \in RootPromises :
                /\ ckind[v] = "Promise"
                /\ v \in controllerMap \/ res[v].how # "none"
                /\ Len(cbuf[v]) <= 2
    /\ decPc = "ended" => \A v \in RootPromises : FrameArrived(v)

\* a body frame that is dispatched to a promise of the root is the first
\* and only one of its id
C22_StepOK ==
    \A v \in RootPromises :
        (decPc = "run" /\ decPc' = "run" /\ Len(cbuf'[v]) > Len(cbuf[v]))
            => /\ cbuf[v] = <<>> /\ res[v].how = "none"
               /\ v \in controllerMap
               /\ controllerMap \subseteq controllerMap'

Nested == {k \in Registered : k > Len(root)}

\* the terminal frame of id k has been dispatched on the decoder's side
TerminalDispatched(k) ==
    \/ res[k].how \in {"fulfilled", "rejected", "return", "throw"}
    \/ \E i \in 1 .. Len(cbuf[k]) :
          /\ cbuf[k][i].tag = "chunk"
          /\ TerminalFor(kindOf[k], cbuf[k][i])

\* the placeholders of the payloads the consumer of id p has been given
DeliveredTo(p) ==
    {obs[p][i].refs : i \in 1 .. Len(obs[p])}
        \cup (IF res[p].how \in {"fulfilled", "return"}
              THEN {res[p].value.refs} ELSE {})

\* the step registers a nested async value
RegistersNested == encPc # "init" /\ counter' # counter

C23_StepOK ==
    RegistersNested =>
        LET k == counter + 1
        IN /\ counter' = k /\ kindOf[k] = "none" /\ kindOf'[k] \in kinds
           /\ state = "pending" =>
                 /\ state' = "pending"
                 /\ k \in iterators' /\ k \notin iterators
                 /\ itState'[k] = "pending" /\ ppc'[k] = "await"
                 /\ \E p \in iterators :
                       /\ ppc[p] = "await" /\ ppc'[p] \in {"yY", "yT"}
                       /\ buffer' = Append(buffer,
                             [it |-> p,
                              res |-> [status |-> "yield",
                                       value |-> Body(p,
                                          IF ppc'[p] = "yY" \/ kindOf[p] = "Promise"
                                          THEN 0 ELSE ASYNC_ITERABLE_STATUS_RETURN,
                                          Payload(IF ppc'[p] = "yY" THEN n'[p] ELSE "r",
                                                  <<[name |-> kindOf'[k], id |-> k]>>))]])

C23_StateOK ==
    /\ encPc = "done" => \A k \in Registered : TerminalDispatched(k)
    /\ \A k \in Ids : ckind[k] # "none" => kindOf[k] = ckind[k]
    /\ \A k \in Nested :
          /\ (k \in handed) <=>
                \E p \in Ids :
                    <<[name |-> kindOf[k], id |-> k]>> \in DeliveredTo(p)
          /\ k \in handed => cpc[k] # "none"
          /\ res[k].how \in {"fulfilled", "return"} =>
                /\ term[k] = "return"
                /\ res[k].value.v = "r"
          /\ Len(obs[k]) <= n[k]

\* C23: an async value inside the payload of a body chunk gets the next id
\* in the step that serializes the chunk and, the iteration being in
\* progress, its producer joins the live set and is pulled in that step;
\* the output does not complete before its terminal frame has been
\* emitted; the decoder hands it over, revived, inside the payload the
\* parent's consumer is given, and it settles as its source did
C23_NestedAsyncValues == []C23_StateOK /\ [][C23_StepOK]_vars

\* a promise that fulfilled to a value holding a second promise, both
\* fulfilled on the decoder's side after the output completed
C23_Witness ==
    /\ root = <<"Promise">> /\ counter = 2 /\ kindOf[2] = "Promise"
    /\ encPc = "done" /\ decPc = "ended"
    /\ res[1].how = "fulfilled"
    /\ res[1].value.refs = <<[name |-> "Promise", id |-> 2]>>
    /\ res[2].how = "fulfilled"

\* ---------------------------------------------------------------------
\* what belongs to the consumer of id k and to its controller
ViewOf(k) ==
    <<cbuf[k], cres[k], cpc[k], obs[k], res[k], ccancel[k],
      k \in controllerMap>>

\* the step is one of the dispatcher / of a consumer
DispatcherStep == out' # out \/ decPc' # decPc
ConsumerStep == ~DispatcherStep /\ decVars' # decVars

\* the consumer of id k, not cancelled, has lost nothing: what it has been
\* given is a prefix of the frames dispatched for k, the rest waits in the
\* buffer in dispatch order and it is woken for it
Intact(k) ==
    LET fs == FramesOf(k)
        seen == Len(obs[k])
    IN /\ seen <= Len(fs)
       /\ \A i \in 1 .. seen : obs[k][i] = AsValue(fs[i])
       /\ ByFrame(k) =>
             /\ seen + 1 <= Len(fs)
             /\ res[k] = OutcomeOf(ckind[k], fs[seen + 1])
       /\ ~Settled(k) =>
             /\ Len(ChunksOf(k)) = Len(fs) - seen
             /\ \A i \in 1 .. Len(ChunksOf(k)) :
                   ChunksOf(k)[i] = AsChunk(fs[seen + i])
             /\ (cpc[k] = "reading" /\ ChunksOf(k) # <<>>) => cres[k]

C24_StateOK ==
    /\ (decPc = "run" /\ Len(out) <= MaxFrames) => ENABLED WireFrame
    /\ decPc = "run" => ENABLED WireEnd
    /\ \A k \in Ids : ccancel[k] = "no" => Intact(k)

C24_StepOK ==
    /\ ConsumerStep =>
          \A i, j \in Ids :
              (i # j /\ ViewOf(i)' # ViewOf(i)) => ViewOf(j)' = ViewOf(j)
    /\ DispatcherStep =>
          \A k \in Ids :
              /\ obs'[k] = obs[k] /\ res'[k] = res[k]
              /\ ccancel'[k] = ccancel[k]
              /\ cpc'[k] = cpc[k] \/ cpc[k] = "none"
              /\ k \in controllerMap => k \in controllerMap'
              /\ (out' # out /\ out'[Len(out')].tag = "body"
                     /\ out'[Len(out')].id = k)
                    => /\ k \in controllerMap'
                       /\ cbuf'[k][Len(cbuf'[k])] = AsChunk(out'[Len(out')])
                       /\ cres'[k]

\* C24: the dispatcher never waits on a consumer.  Whatever the consumers
\* do (read, not read, cancel), the dispatcher can take the next frame, and
\* taking it pushes it to its controller and moves on; a step of the
\* consumer of one id changes nothing of another id's controller or
\* consumer, so every consumer that has not cancelled is given all the
\* frames of its id in order and its terminal outcome
C24_DispatcherNeverWaits == []C24_StateOK /\ [][C24_StepOK]_vars

\* one sequence cancelled by its consumer with a frame of its id arriving
\* all the same, the other read to its return
C24_Witness ==
    \E i, j \in Ids :
        /\ i # j
        /\ ccancel[i] = "done" /\ FramesOf(i) # <<>>
        /\ ckind[j] = "AsyncIterable"
        /\ Len(obs[j]) = 1 /\ res[j].how = "return"

\* ---------------------------------------------------------------------
\* the step ends the consumer view of id k
ViewEnds(k) == res[k].how = "none" /\ res'[k].how # "none"

\* C25: in the step in which the consumer view of a controller terminates
\* (by a terminal frame, an error sentinel or the consumer's cancellation,
\* for a promise, a sequence or a stream), the controller of that id is
\* removed from the decoder's map
C25_ControllerRemoved ==
    [][\A k \in Ids : ViewEnds(k) => k \notin controllerMap']_vars

\* the same for the views that end by a frame or a sentinel, streams apart
C25_ByFrameNotStream ==
    [][\A k \in Ids :
          (ViewEnds(k) /\ ckind[k] # "ReadableStream"
             /\ res'[k].how # "cancelled") => k \notin controllerMap']_vars

\* the same for a cancellation that finds the generator at a yield
C25_CancelledAtYield ==
    [][\A k \in Ids :
          (ViewEnds(k) /\ res'[k].how = "cancelled" /\ cpc[k] = "idle")
              => k \notin controllerMap']_vars

\* a stream closed by its return frame, its controller still in the map
C25_StreamClosedKept ==
    \E k \in Ids :
        /\ ckind[k] = "ReadableStream" /\ res[k].how = "close"
        /\ k \in controllerMap /\ ccancel[k] = "no"

\* ---------------------------------------------------------------------
\* the revived sequence of id k has been cancelled or has terminated, and
\* its controller has been removed (a sequence cancelled before it was
\* given anything may never have had one, and is left out)
Gone(k) ==
    /\ ckind[k] \in {"AsyncIterable", "ReadableStream"}
    /\ Settled(k) /\ k \notin controllerMap
    /\ res[k].how = "cancelled" => Len(obs[k]) > 0

\* C26: once a revived sequence has been cancelled or has terminated and
\* its controller has been removed, a body frame that arrives for its id
\* creates no controller and is not buffered: the id stays out of the map
C26_LateFramesDiscarded ==
    [][\A k \in Ids :
          Gone(k) => /\ k \notin controllerMap'
                     /\ cbuf'[k] = cbuf[k]]_vars

\* a sequence read once and then cancelled, with a new controller that
\* holds a frame which arrived afterwards
C26_Recreated ==
    \E k \in Ids :
        /\ ckind[k] = "AsyncIterable" /\ res[k].how = "cancelled"
        /\ Len(obs[k]) = 1
        /\ k \in controllerMap /\ Len(ChunksOf(k)) = 1
        /\ decPc = "run"

\* the positions of the newlines of a text, and the i-th of them
NlAt(t) == {i \in 1 .. Len(t) : t[i] = NL}

NthNl(t, i) ==
    CHOOSE p \in NlAt(t) : Cardinality({q \in NlAt(t) : q < p}) = i - 1

\* the newline-terminated segments of a text, in order
Terminated(t) ==
    [i \in 1 .. Cardinality(NlAt(t)) |->
        SubSeq(t, IF i = 1 THEN 1 ELSE NthNl(t, i - 1) + 1, NthNl(t, i) - 1)]

\* the text after its last newline
Trailing(t) ==
    SubSeq(t, IF NlAt(t) = {} THEN 1
              ELSE NthNl(t, Cardinality(NlAt(t))) + 1, Len(t))

RECURSIVE Concat(_)
Concat(cs) == IF cs = <<>> THEN <<>> ELSE Head(cs) \o Concat(Tail(cs))

\* C27: however a text is cut into chunks, the lines emitted are exactly
\* the newline-terminated segments of the text received so far, in order;
\* what follows the last newline is held in the buffer and, when the
\* upstream ends, it is dropped: the lines emitted are then those of the
\* whole text and nothing else.
C27_StateOK ==
    /\ lines = Terminated(fed)
    /\ lineBuffer = Trailing(fed)
    /\ lineEnded => upstream = <<>>

C27_StepOK ==
    /\ fed' \o Concat(upstream') = fed \o Concat(upstream)
    /\ lineEnded' /\ ~lineEnded => lines' = lines

C27_LineFraming == []C27_StateOK /\ [][C27_StepOK]_vars

\* a line of three characters, which no single chunk can hold, was emitted
\* once, and the text ended with an unterminated segment that was not
C27_Witness ==
    /\ lineEnded
    /\ fed = <<"a", "a", "a", NL, "a">>
    /\ lines = <<(<<"a", "a", "a">>)>>
    /\ lineBuffer = <<"a">>

\* the sources the engine wrapped after its start-up loop, that is, the
\* ones added while the iteration was in progress
AddedLate == {k \in Ids : k > Len(root) /\ itState[k] # "none"}

\* the positions of the output whose payload holds the placeholder of k
MentionedAt(k) ==
    {i \in 1 .. Len(out) :
        \E j \in 1 .. Len(out[i].payload.refs) : out[i].payload.refs[j].id = k}

C28_StepOK ==
    (state = "pending" /\ counter' # counter) =>
        LET k == counter + 1
        IN /\ counter' = k /\ state' = "pending"
           /\ itState[k] = "none" /\ itState'[k] = "pending"
           /\ onResult'[k] /\ ppc'[k] = "await"
           /\ k \notin iterators /\ k \in iterators'
           /\ mpc' = mpc /\ mexit' = "none"
           /\ FramesOf(k) = <<>>

C28_StateOK ==
    /\ \A k \in AddedLate :
          /\ \A j \in 1 .. Len(out) :
                IsFrameOf(out[j], k) => \E i \in MentionedAt(k) : i < j
          /\ (state = "pending" /\ term[k] = "none") => k \in iterators
          /\ mexit = "normal" =>
                /\ k \notin iterators /\ itState[k] = "done"
                /\ term[k] # "none"
                /\ Len(FramesOf(k)) = n[k] + 1
    /\ mexit = "normal" => iterators = {}

\* C28: a source added while the iteration is in progress is wrapped and
\* pulled in the step that adds it; every frame it produces comes out
\* after the frame that brought it in; while the iteration goes on it stays
\* in the live set until it has finished, and the merged sequence completes
\* normally only when the source has finished and all its values and its
\* completion have been delivered.
C28_AddedWhileIterating == []C28_StateOK /\ [][C28_StepOK]_vars

\* a sequence added by the first value of the root's sequence yielded two
\* values and returned; the merged sequence then completed
C28_Witness ==
    /\ mexit = "normal" /\ mpc = "done"
    /\ Len(root) = 1 /\ AddedLate = {2}
    /\ kindOf[2] = "AsyncIterable" /\ n[2] = 2
    /\ Len(FramesOf(2)) = 3
    /\ MentionedAt(2) = {2}

RevivedStreams == {k \in Ids : ckind[k] = "ReadableStream"}

\* no source of the session has failed with a cause that cannot be encoded
AllEncodable == \A j \in Ids : term[j] \in {"none", "return", "E"}

C29_StateOK ==
    \A k \in RevivedStreams :
        /\ Len(obs[k]) <= n[k]
        /\ \A i \in 1 .. Len(obs[k]) : obs[k][i].v = i
        /\ res[k].how = "close" =>
              /\ term[k] = "return"
              /\ Len(obs[k]) = n[k]
              /\ res[k].value = [v |-> "none", refs |-> <<>>]
        /\ (term[k] = "return" /\ AllEncodable) =>
              res[k].how \in {"none", "close"}
        /\ (term[k] = "E" /\ AllEncodable) =>
              \/ res[k].how = "none"
              \/ /\ res[k] = [how |-> "throw",
                              value |-> [v |-> "E", refs |-> <<>>]]
                 /\ Len(obs[k]) = n[k]

C29_StepOK ==
    \A k \in RevivedStreams : res[k].how \in {"close", "throw"} => Stable(k)

\* C29: a pull-stream source that enqueues v1..vn and then closes is revived
\* as a stream whose reader is given v1..vn in that order and then sees the
\* stream close, the payload of the return frame being ignored; a source
\* that errors with an encodable cause is revived as a stream that errors
\* with that cause after its items.
C29_StreamRoundTrip == []C29_StateOK /\ [][C29_StepOK]_vars

\* the round trip of a stream that is the only async value of its session
C29_AloneStateOK == (Len(root) = 1 /\ counter = 1) => C29_StateOK

C29_Alone == []C29_AloneStateOK

\* a stream alone in its session delivered two items and closed on the
\* reader's side
C29_AloneClosed ==
    /\ Len(root) = 1 /\ counter = 1 /\ ckind[1] = "ReadableStream"
    /\ Len(obs[1]) = 2 /\ res[1].how = "close" /\ term[1] = "return"

\* a stream whose source delivered its items and closed errors on the
\* reader's side with the failure of another stream's cleanup
C29_ClosedSourceErrors ==
    \E k \in RevivedStreams :
        /\ term[k] = "return" /\ AllEncodable
        /\ res[k].how = "throw"

\* steps issued on the upstream whose promise has not settled yet
InFlight == issued - settled

C30_StateOK ==
    /\ InFlight \in {0, 1}
    /\ miState = "pending" => InFlight = 1
    /\ miState = "idle" => InFlight = 0
    /\ calls <= settled

C30_StepOK ==
    /\ issued' # issued =>
          /\ issued' = issued + 1 /\ pulls' = pulls + 1
          /\ miState = "idle" /\ InFlight = 0
    /\ (pulls' # pulls /\ miState # "idle") =>
          /\ issued' = issued /\ miState' = miState
    /\ calls' # calls =>
          /\ calls' = calls + 1 /\ settled' = settled + 1

\* C30: whatever the order of the pull() and destroy() calls, at most one
\* step on the upstream is in flight: a step is issued only by a pull()
\* that finds the iterator idle with nothing in flight, a pull() that finds
\* it pending or done issues none; the callback is called only when a step
\* settles, once, so there are never more callbacks than settled steps.
C30_OneStepInFlight == []C30_StateOK /\ [][C30_StepOK]_vars

\* a second pull() came while the second step was in flight and issued
\* nothing: three calls, two steps, one of them settled and reported
C30_Witness ==
    /\ pulls = 3 /\ issued = 2 /\ settled = 1 /\ calls = 1
    /\ miState = "pending" /\ destroys = 0

\* C31: the done state of a managed iterator is terminal: once its state is
\* done, by a return result, an error result or destroy(), the state stays
\* done, the callback is not called again and no pull() issues a step on
\* the upstream.
C31_DoneIsTerminal ==
    [][miState = "done" =>
          /\ miState' = "done"
          /\ calls' = calls
          /\ issued' = issued]_vars

\* what does hold: after done the callback is never called again, and a
\* pull() that finds the state done issues nothing
C31_CallbackDropped ==
    [][miState = "done" =>
          /\ calls' = calls
          /\ pulls' # pulls => issued' = issued /\ miState' = "done"]_vars

\* destroy() came while the first step was in flight, the step then
\* settled with a value, and the next pull() issued a second step
C31_PulledAfterDestroy ==
    /\ destroys = 1 /\ pulls = 2 /\ issued = 2 /\ settled = 1
    /\ miState = "pending" /\ ~miOnResult /\ calls = 0

\* in the encoder: a producer destroyed by the merge engine's cleanup while
\* its step was in flight is idle again after the step has settled
C31_IdleAfterDestroyInEngine ==
    \E k \in Ids : dst[k] # "no" /\ itState[k] = "idle" /\ ~onResult[k]

\* the merge generator was left by throwing the error of a source
EngineThrew == mexit \notin {"none", "normal", "break"}

C32_StepOK ==
    /\ (state = "pending" /\ state' = "pending" /\ buffer' # buffer
          /\ out' = out) =>
          /\ buffer' # <<>>
          /\ buffer' = Append(buffer, buffer'[Len(buffer')])
    /\ (state = "pending" /\ out' # out) =>
          /\ buffer # <<>> /\ Head(buffer).res.status = "yield"
          /\ out' = Append(out, Head(buffer).res.value)
          /\ buffer' = Tail(buffer)
    /\ (mexit = "none" /\ mexit' \notin {"none", "normal"}) =>
          /\ buffer # <<>> /\ Head(buffer).res.status = "error"
          /\ mexit' = Head(buffer).res.value
          /\ out' = out
          /\ state = "pending" /\ state' = "done"
          /\ \A k \in iterators :
                /\ dst[k] = "no" /\ dst'[k] # "no"
                /\ returns'[k] = returns[k] + 1
                /\ ~onResult'[k]
    /\ EngineThrew =>
          /\ mexit' = mexit /\ out' = out
          /\ Len(buffer') <= Len(buffer)
          /\ \A k \in Ids :
                /\ ~onResult'[k]
                /\ returns'[k] = returns[k]
                /\ ppc'[k] = "await" => ppc[k] = "await"

C32_StateOK ==
    EngineThrew =>
        /\ state = "done"
        /\ \A k \in liveAtExit : dst[k] # "no"
        /\ encPc \in {"wait", "threw"}

\* C32: results queue in the buffer in the order they reach the engine and
\* the consumer is given them from the head, so when the head is an error
\* every value buffered ahead of it has been delivered; the engine then
\* throws that error, delivers nothing in that step or later, and destroys
\* every source that is still live, none of which is stepped again.
C32_ErrorAfterBufferedValues == []C32_StateOK /\ [][C32_StepOK]_vars

\* the error of one source has reached the engine behind a value of another
\* source that the consumer has not been given yet
C32_Witness ==
    /\ state = "pending" /\ Len(buffer) = 2
    /\ buffer[1].res.status = "yield" /\ buffer[2].res.status = "error"
    /\ buffer[1].it # buffer[2].it

\* the engine has thrown the error of source 1 after the consumer was given
\* both values of source 2, which was live and has been destroyed
C32_Thrown ==
    /\ EngineThrew /\ mpc = "done" /\ term[1] = "U"
    /\ liveAtExit = {2} /\ dst[2] = "ok"
    /\ Len(FramesOf(2)) = 2 /\ n[2] = 2

\* the values that have reached the engine, delivered or still buffered, in
\* the order the consumer is or will be given them
Values(b) ==
    LET ys == SelectSeq(b, LAMBDA e : e.res.status = "yield")
    IN [i \in 1 .. Len(ys) |-> ys[i].res.value]

Log == SubSeq(out, 2, Len(out)) \o Values(buffer)

\* the step of source k in flight resolves with a value
Resolves(k) == ppc[k] = "await" /\ ppc'[k] \in {"yY", "yT"}

C33_StepOK ==
    (state = "pending" /\ state' = "pending") =>
        /\ \A k \in Ids :
              Resolves(k) =>
                  /\ Len(Log') = Len(Log) + 1
                  /\ Log' = Append(Log, Log'[Len(Log')])
                  /\ Log'[Len(Log')].id = k
                  /\ out' = out
        /\ (\A k \in Ids : ~Resolves(k)) => Log' = Log
        /\ out' # out => out' = Append(out, Log[Len(out)])

C33_StateOK ==
    state = "pending" =>
        \A k \in Registered :
            LET fs == SelectSeq(Log, LAMBDA f : f.id = k)
            IN /\ Len(fs) \in {n[k], n[k] + 1}
               /\ term[k] = "none" => Len(fs) = n[k]
               /\ \A i \in 1 .. n[k] : fs[i].payload.enc = <<"devalue", i>>

\* C33: the values of all sources that have resolved, each once, stand in
\* one sequence in the order their steps resolved: a step that resolves
\* adds its value at the end, nothing else changes the sequence, and the
\* consumer is given its entries from the front, one after the other. So a
\* value whose step resolved earlier is delivered earlier.
C33_ResolutionOrder == []C33_StateOK /\ [][C33_StepOK]_vars

\* source 2 has been delivered once; then a step of source 1 resolved and
\* after it the second step of source 2, both values waiting in that order
C33_Witness ==
    /\ state = "pending" /\ Len(out) = 2 /\ out[2].id = 2
    /\ Len(buffer) = 2
    /\ buffer[1].it = 1 /\ buffer[1].res.status = "yield"
    /\ buffer[2].it = 2 /\ buffer[2].res.status = "yield"

\* every producer the engine was given has finished without throwing
AllFinished == \A k \in Registered : ppc[k] = "done"

C34_StateOK ==
    /\ (mpc = "done" /\ AllFinished) => mexit = "normal"
    /\ mexit = "normal" =>
          /\ iterators = {} /\ liveAtExit = {}
          /\ buffer = <<>>
          /\ \A k \in Registered :
                /\ itState[k] = "done"
                /\ Len(FramesOf(k)) = n[k] + 1

C34_StepOK ==
    (mexit = "none" /\ mexit' = "normal") =>
        /\ iterators = {} /\ buffer = <<>>
        /\ \A k \in Registered : Len(FramesOf(k)) = n[k] + 1

\* C34: with a consumer that keeps pulling and sources whose steps all
\* settle, the merged sequence eventually ends, and it ends by completing
\* when every source has finished; it completes only when the live set is
\* empty, and by then the buffer is empty and every value and the terminal
\* frame of every source have been delivered.
C34_Termination ==
    /\ <>(mpc = "done")
    /\ []C34_StateOK
    /\ [][C34_StepOK]_vars

\* two sequences of two values each, one of them added while iterating,
\* have finished, and the merged sequence has completed with all six frames
C34_Witness ==
    /\ mpc = "done" /\ mexit = "normal" /\ encPc = "done"
    /\ counter = 2 /\ n[1] = 2 /\ n[2] = 2
    /\ kindOf[1] = "AsyncIterable" /\ kindOf[2] = "AsyncIterable"
    /\ Len(out) = 7

SeqSources == {k \in Registered : kindOf[k] = "AsyncIterable"}

\* the producer of k has left its loop: its finally block runs or has run
Exited(k) == ppc[k] \in {"fin", "finErr", "finR", "done", "threw"}

C35_StateOK ==
    \A k \in SeqSources :
        /\ cancels[k] \in {0, 1}
        /\ Exited(k) <=> cancels[k] = 1
        /\ (mpc = "done" /\ itState[k] # "none") => cancels[k] = 1

C35_StepOK ==
    \A k \in SeqSources :
        /\ cancels'[k] >= cancels[k]
        /\ cancels'[k] # cancels[k] =>
              \/ ppc[k] = "yT" /\ ppc'[k] = "fin" /\ term[k] # "none"
              \/ ppc[k] = "await" /\ ppc'[k] = "finErr" /\ term'[k] = "U"
              \/ ppc'[k] = "finR" /\ dst'[k] # "no"

\* C35: the producer of an async sequence invokes the source's return()
\* hook when it leaves its loop, and only then: after the source is
\* exhausted or has thrown and the frame for it has been taken, at once
\* when the cause cannot be encoded, and when the producer is returned from
\* outside; never twice for one source, and once for every source that was
\* started by the time the engine's cleanup has ended.
C35_HookOnEveryExit == []C35_StateOK /\ [][C35_StepOK]_vars

\* source 1 was exhausted and then left, source 2 was cancelled from outside
\* while it had more to give: one call of the hook each
C35_Witness ==
    /\ mpc = "done" /\ SeqSources = {1, 2}
    /\ term[1] = "return" /\ dst[1] = "no" /\ cancels[1] = 1
    /\ term[2] = "none" /\ dst[2] = "ok" /\ cancels[2] = 1

\* a source that threw a cause that cannot be encoded: one call of the hook
C35_AfterThrow ==
    \E k \in SeqSources : term[k] = "U" /\ ppc[k] = "threw" /\ cancels[k] = 1

StreamSources == {k \in Registered : kindOf[k] = "ReadableStream"}

\* C36: the producer of a pull-stream that delivered its items and closed
\* ends without an error: its finally block raises nothing into the merge
\* engine, and an encoder all of whose sources have closed or returned
\* completes normally.
C36_StreamProducerEndsCleanly ==
    /\ \A k \in StreamSources :
          term[k] = "return" =>
              /\ ppc[k] # "threw"
              /\ \A i \in 1 .. Len(buffer) :
                    buffer[i].it = k => buffer[i].res.status # "error"
    /\ (\A k \in Registered : term[k] = "return") =>
          /\ mexit \in {"none", "normal"}
          /\ encPc # "threw"

\* a stream alone in its session gave two items and closed; all its frames
\* are out, and the encoder's output has thrown the TypeError of the cleanup
C36_ThrownAfterClose ==
    /\ root = <<"ReadableStream">> /\ counter = 1
    /\ n[1] = 2 /\ term[1] = "return" /\ Len(FramesOf(1)) = 3
    /\ ppc[1] = "threw" /\ mexit = "T"
    /\ encPc = "threw" /\ encErr = "T"

\* the same session over a sequence completes normally
C36_SequenceEndsCleanly ==
    (kindOf[1] = "AsyncIterable" /\ counter = 1 /\ term[1] = "return") =>
        /\ ppc[1] # "threw" /\ mexit \in {"none", "normal"}
        /\ encPc # "threw"

\* the merge generator is suspended at await flushSignal.promise
Waiting == mpc = "await"

\* C37: whenever the merge generator is suspended on the flush signal and
\* a result is buffered, the signal it waits on is resolved; so is it when
\* the live set has become empty. The signal is re-armed only when the
\* buffer is empty, in the step that found it empty.
C37_NoLostWakeup ==
    /\ [](Waiting /\ buffer # <<>> => flushSignal)
    /\ [](Waiting /\ iterators = {} => flushSignal)
    /\ [][(flushSignal /\ ~flushSignal') => buffer' = <<>>]_vars

\* after one delivery and a re-arming of the signal, a second result has
\* arrived while the generator waits: the signal is resolved again
C37_Witness ==
    /\ Waiting /\ Len(out) = 2 /\ Len(buffer) = 1 /\ flushSignal
    /\ buffer[1].res.status = "yield"

\* the frame sequence has ended or thrown
TransportFinished == decPc \in {"ended", "failed"}

\* C38: once the frame sequence has ended or thrown, the consumer of every
\* id the application holds, if it keeps reading, eventually observes a
\* terminal outcome, also when it starts reading only then.
C38_NoConsumerBlocksForever ==
    \A k \in Ids :
        (TransportFinished /\ k \in handed) ~> Settled(k)

\* the consumer of a sequence that got no frame started reading after the
\* frame sequence had ended: it waits on a controller made after the end,
\* which nothing will ever feed
C38_BlockedForever ==
    \E k \in Ids :
        /\ TransportFinished /\ k \in handed /\ ckind[k] = "AsyncIterable"
        /\ k \notin openAtEnd
        /\ cpc[k] = "reading" /\ k \in controllerMap
        /\ cbuf[k] = <<>> /\ ~cres[k]

\* what does hold: a consumer whose controller was in the map when the
\* frame sequence ended, or that had taken its terminal entry before, is
\* never left waiting on an unresolved deferred with nothing buffered
C38_FedWhenOpen ==
    \A k \in Ids :
        (TransportFinished /\ k \in openAtEnd /\ cpc[k] = "reading"
            /\ ccancel[k] = "no") =>
            cres[k] /\ cbuf[k] # <<>>

\* ------------------------------------------------ a well-formed stream
\* id k is referenced by the payload of a frame of the sequence
Referenced(k) == MentionedAt(k) # {}

\* the frame sequence has ended, and every referenced id was sent a frame
\* that is terminal for its kind before that
WellFormed ==
    /\ decPc = "ended"
    /\ \A k \in Ids : Referenced(k) => HasTerminal(k)

\* the place of the first terminal frame among the frames of id k
FirstTerminal(k) ==
    CHOOSE i \in 1 .. Len(FramesOf(k)) :
        /\ TerminalFor(ckind[k], FramesOf(k)[i])
        /\ \A j \in 1 .. i - 1 : ~TerminalFor(ckind[k], FramesOf(k)[j])

\* C39: in a well-formed stream (every referenced id is sent its terminal
\* frame before the frame sequence ends) no consumer observes the error
\* "Stream interrupted: malformed stream", however late it reads: a consumer
\* that has ended was given the frames of its id before the terminal one and
\* ended with what the terminal frame says; a consumer that has not ended
\* was given a prefix of them and finds the next frame of its id, not the
\* final error, at the head of its controller's buffer.
C39_WellFormedNeverInterrupted ==
    WellFormed =>
        \A k \in Ids : Referenced(k) =>
            LET fs == FramesOf(k)
                t == FirstTerminal(k)
                seen == Len(obs[k])
            IN /\ res[k] # Interrupted
               /\ ~BySentinel(k)
               /\ seen <= t - 1
               /\ \A i \in 1 .. seen : obs[k][i] = AsValue(fs[i])
               /\ Settled(k) =>
                     /\ seen = t - 1
                     /\ res[k] = OutcomeOf(ckind[k], fs[t])
               /\ ~Settled(k) =>
                     /\ k \in controllerMap
                     /\ cbuf[k] # <<>>
                     /\ Head(cbuf[k]) = AsChunk(fs[seen + 1])

\* a revived sequence that was read to its return frame after the frame
\* sequence had ended: the final error is left behind in the buffer
C39_Witness ==
    /\ WellFormed
    /\ \E k \in Ids :
          /\ ckind[k] = "AsyncIterable" /\ Referenced(k)
          /\ res[k].how = "return" /\ Len(obs[k]) = 1
          /\ cbuf[k] = <<InterruptedError>>

\* ------------------------------------------- placeholders before frames
\* C40: in the encoder's output the frame (header or body) whose payload
\* carries the placeholder of an id comes before every body frame of that
\* id, in whatever order the sources' steps settle: every id of a body frame
\* has been referenced by an earlier frame of the session.
C40_PlaceholderBeforeFrames ==
    \A p \in 1 .. Len(out) :
        out[p].tag = "body" => \E i \in MentionedAt(out[p].id) : i < p

\* the session has completed normally with a body frame whose id no frame
\* of the output references
C40_Orphan ==
    /\ encPc = "done"
    /\ \E p \in 1 .. Len(out) :
          out[p].tag = "body" /\ MentionedAt(out[p].id) = {}

\* when every stringify call of the session succeeds, each registered id has
\* its placeholder in exactly one frame, sent before all the id's own frames
C40_WhenValuesEncode ==
    \A k \in Registered :
        /\ Cardinality(MentionedAt(k)) <= 1
        /\ FramesOf(k) # <<>> =>
              /\ Cardinality(MentionedAt(k)) = 1
              /\ \A p \in 1 .. Len(out) :
                    IsFrameOf(out[p], k) => \A i \in MentionedAt(k) : i < p
====
